---- MODULE Spec2Model ----
(***************************************************************************)
(* A model of swiftlink: the fake-IP allocator with its two stores         *)
(* (swiftlink-infra/src/fakedns, swiftlink-infra/src/cachefile.rs), the    *)
(* SOCKS4/SOCKS5 TCP ingress (swiftlink/src/inbound/socks/tcp.rs), the     *)
(* proxied upstream connect and the NameServerGroup lookup of the resolver *)
(* (swiftlink-dns/src/proxy.rs, client.rs), the domain trie                *)
(* (swiftlink-infra/src/trie), the DNS front end with its handler chain    *)
(* (swiftlink-dns/src/server.rs, dns_handle), the deadline of a Lookup and *)
(* the bootstrap resolver singleton (swiftlink-dns/src/client.rs), the     *)
(* UDP association manager with the tasks of its associations              *)
(* (swiftlink/src/inbound/association.rs), the name server factory         *)
(* (swiftlink-dns/src/client.rs), the handler chain one call at a time     *)
(* (swiftlink-dns/src/dns_handle) and the accept loop of the SOCKS ingress *)
(* (swiftlink/src/inbound/socks/tcp.rs, swiftlink/src/inbound/mod.rs).     *)
(***************************************************************************)
EXTENDS Integers, Sequences, FiniteSets, TLC

(***************************************************************************)
(* Bounds of the model.                                                    *)
(***************************************************************************)
\* the largest number of host bits (max_prefix_len - prefix_len) of a range
MaxHostBits == 3
\* the largest `size` of the memory store
MaxSize == 2
\* the number of store writes that may fail in one run of the cache file
MaxFaults == 1

\* Host names that are looked up. "A" and "a" differ only in ASCII case.
\* None of them is the text of an IP address.
Hosts == {"a", "A", "b"}

VARIABLES
    \* FakeDns (fakedns/mod.rs:69-76)
    offset, total, ipnet, ipnet6, store,
    \* the outcome of the last call on FakeDns
    last,
    \* history: the hosts by their last put or successful get through FakeDns,
    \* the most recent first
    used,
    \* history: the number of store writes that failed so far
    faults,
    \* the SOCKS ingress (inbound/socks/tcp.rs): the configured credential
    \* store, the client handler of one accepted connection, and the channel
    \* of InboundConnections to the dispatcher
    authenticator, client, tcp_in,
    \* the Dispatcher (dispatcher.rs) that is handed the emitted connection
    dispatcher,
    \* proxy::connect_tcp (swiftlink-dns/src/proxy.rs): the TCP connections
    \* and proxy requests of the last call, and its result
    tcp,
    \* NameServerGroup::lookup (swiftlink-dns/src/client.rs): the members of
    \* the group, the futures select_all still holds, the result each
    \* member's future is ready with, and the progress of the lookup
    servers, tasks, ready, lookup,
    \* history: the completions select_all returned, in their order
    completed,
    \* DomainTrie (swiftlink-infra/src/trie): the nodes of the trie by their
    \* path from the root, and the result of the last search
    root, found,
    \* history: the successful inserts, in their order
    inserted,
    \* the domain and the outcome of the last insert
    called,
    \* the DNS front end (swiftlink-dns/src/server.rs): the handler chain
    \* ServerHandleBuilder::build made, and the local store of the bootstrap
    \* resolver
    handle_stack, ip_store,
    \* the last request the front end handled and the response it sent
    dns_request, response,
    \* history: the handlers that ran for the last request, in their order,
    \* and the lookups it sent to the upstream client
    ran, sent,
    \* NameServer::lookup (swiftlink-dns/src/client.rs): the last Lookup that
    \* was built from the first answer of an upstream
    ns_lookup,
    \* UdpAssociationManager (swiftlink/src/inbound/association.rs): the
    \* capacity it was made with, the associations of assoc_map from the least
    \* to the most recently used, the packets in the send channel of every
    \* association, and the associations whose task is running
    capacity, assoc_map, channels, live,
    \* the number of associations created so far, and the outcome of the last
    \* send_to
    created, send_result,
    \* of each association's task (dispatch_packet): its keepalive_flag and, as
    \* history, whether it has taken a tick of its interval and the packets it
    \* has received from its channel; the keepalive channel of the manager, and
    \* whether the manager has been dropped
    keepalive_flag, ticks, received, keepalive_rx, manager_dropped,
    \* the bootstrap singleton (mod bootstrap of swiftlink-dns/src/client.rs):
    \* the slot RESOLVER, and the tasks that call resolver()
    RESOLVER, callers,
    \* history: the number of resolvers made so far, and the writes of the
    \* slot in their order
    made, writes,
    \* NameServerFactory (swiftlink-dns/src/client.rs): the cache of name
    \* servers by key, the tasks that call create, and as history the number
    \* of name servers built and the inserts into the cache in their order
    cache, creators, built, inserts,
    \* the handler chain step by step (swiftlink-dns/src/dns_handle/mod.rs):
    \* the handle_stack of a DnsRequestHandler, the local store of the
    \* bootstrap resolver, the query of the request being searched, the
    \* no_cache flag of its DnsContext, the calls of handle that have not
    \* returned, and as history the starts, delegations and returns of the
    \* handlers, the lookups sent to the upstream client and the last result
    \* returned
    handlers, local_store, chain_query, no_cache, frames, events, lookups, chain_result,
    \* serve_tcp (swiftlink/src/inbound/socks/tcp.rs): whether the shutdown
    \* token is cancelled, where the task of serve_tcp is and what it
    \* returned, the connections that wait at the listener, and as history
    \* the sources the handlers were spawned for and the outcome of the last
    \* accept
    shutdown, serve, backlog, spawned, last_accept

fakeVars == <<offset, total, ipnet, ipnet6, store, last, used, faults>>
socksVars == <<authenticator, client, tcp_in, dispatcher>>

dnsVars == <<tcp, servers, tasks, ready, lookup, completed>>
trieVars == <<root, found, inserted, called>>
serverVars == <<handle_stack, ip_store, dns_request, response, ran, sent>>
nsVars == <<ns_lookup>>
assocVars == <<capacity, assoc_map, channels, live, created, send_result,
              keepalive_flag, ticks, received, keepalive_rx, manager_dropped>>
bootVars == <<RESOLVER, callers, made, writes>>
factoryVars == <<cache, creators, built, inserts>>
chainVars == <<handlers, local_store, chain_query, no_cache, frames, events, lookups, chain_result>>
serveVars == <<shutdown, serve, backlog, spawned, last_accept>>

vars == <<offset, total, ipnet, ipnet6, store, last, used, faults,
          authenticator, client, tcp_in, dispatcher,
          tcp, servers, tasks, ready, lookup, completed,
          root, found, inserted, called,
          handle_stack, ip_store, dns_request, response, ran, sent,
          ns_lookup,
          capacity, assoc_map, channels, live, created, send_result,
          keepalive_flag, ticks, received, keepalive_rx, manager_dropped,
          RESOLVER, callers, made, writes,
          cache, creators, built, inserts,
          handlers, local_store, chain_query, no_cache, frames, events, lookups, chain_result,
          shutdown, serve, backlog, spawned, last_accept>>

\* what the actions of one component leave alone
notFakeDns ==
    <<socksVars, dnsVars, trieVars, serverVars, nsVars, assocVars, bootVars,
      factoryVars,
      chainVars,
      serveVars>>
notSocks ==
    <<fakeVars, dnsVars, trieVars, serverVars, nsVars, assocVars, bootVars,
      factoryVars,
      chainVars,
      serveVars>>
notDns ==
    <<fakeVars, socksVars, trieVars, serverVars, nsVars, assocVars, bootVars,
      factoryVars,
      chainVars,
      serveVars>>
notTrie ==
    <<fakeVars, socksVars, dnsVars, serverVars, nsVars, assocVars, bootVars,
      factoryVars,
      chainVars,
      serveVars>>
\* the front end calls the allocator
notServer ==
    <<socksVars, dnsVars, trieVars, nsVars, assocVars, bootVars,
      factoryVars,
      chainVars,
      serveVars>>
notNs ==
    <<fakeVars, socksVars, dnsVars, trieVars, serverVars, assocVars, bootVars,
      factoryVars,
      chainVars,
      serveVars>>
notBoot ==
    <<fakeVars, socksVars, dnsVars, trieVars, serverVars, nsVars, assocVars,
      factoryVars,
      chainVars,
      serveVars>>
notAssoc ==
    <<fakeVars, socksVars, dnsVars, trieVars, serverVars, nsVars, bootVars,
      factoryVars,
      chainVars,
      serveVars>>
notFactory ==
    <<fakeVars, socksVars, dnsVars, trieVars,
      serverVars, nsVars, assocVars, bootVars,
      chainVars,
      serveVars>>
notChain ==
    <<fakeVars, socksVars, dnsVars, trieVars,
      serverVars, nsVars, assocVars, bootVars, factoryVars,
      serveVars>>
notServe ==
    <<fakeVars, socksVars, dnsVars, trieVars,
      serverVars, nsVars, assocVars, bootVars, factoryVars, chainVars>>

(***************************************************************************)
(* Addresses, ranges and byte-string keys.                                 *)
(***************************************************************************)
\* IpAddr: the family and the address as a number.
V4(n) == [v6 |-> FALSE, n |-> n]
V6(n) == [v6 |-> TRUE, n |-> n]
NoIp == [v6 |-> FALSE, n |-> -1]
NoHost == ""

\* A range: its network address and the number of host bits.
\* Both networks are aligned for every prefix the model draws.
Network4 == 2 ^ (MaxHostBits + 1)
Network6 == 2 ^ (MaxHostBits + 2)
Ipv4Net(bits) == [network |-> Network4, bits |-> bits]
Ipv6Net(bits) == [network |-> Network6, bits |-> bits]

\* ipnet::contains
Contains(net, n) == net.network <= n /\ n < net.network + 2 ^ net.bits
\* ipnet::broadcast: the last address of the range
Broadcast(net) == net.network + 2 ^ net.bits - 1

\* host.as_bytes(): the key of a host name
AsBytes(host) == [t |-> "host", s |-> host, v6 |-> FALSE, n |-> 0]
\* ip.to_string().as_bytes(): the key of an address, its text
IpToString(ip) == [t |-> "ip", s |-> "", v6 |-> ip.v6, n |-> ip.n]
\* str::parse::<IpAddr>(): Ok exactly for the text of an address
ParsesAsIp(k) == k.t = "ip"
ParseIp(k) == IF ParsesAsIp(k) THEN [v6 |-> k.v6, n |-> k.n] ELSE NoIp
\* String::from_utf8
FromUtf8(k) == IF k.t = "host" THEN k.s ELSE NoHost
NoKey == [t |-> "none", s |-> "", v6 |-> FALSE, n |-> 0]

\* str::eq_ignore_ascii_case
ToAsciiLower(h) == IF h = "A" THEN "a" ELSE h
eq_ignore_ascii_case(x, y) == ToAsciiLower(x) = ToAsciiLower(y)

(***************************************************************************)
(* fakedns/mod.rs: gen_next_ipv4, gen_next_ipv6                            *)
(***************************************************************************)
gen_next_ipv4(net, off) == V4(net.network + 2 + off)
gen_next_ipv6(net, off) == V6(net.network + 2 + off)

\* FakeDns::new: total = (1 << host bits) - 2, panics when 1 << bits <= 2
NewTotal(bits) == 2 ^ bits - 2
NewAccepts(bits) == 2 ^ bits > 2

(***************************************************************************)
(* bimap::BiMap as a function from its left values to its right values.    *)
(***************************************************************************)
EmptyMap == [k \in {} |-> NoIp]
BiMapInsert(m, l, r) ==
    LET keep == {k \in DOMAIN m : k # l /\ m[k] # r}
    IN  [k \in keep \cup {l} |-> IF k = l THEN r ELSE m[k]]
BiMapRemoveByLeft(m, l) == [k \in DOMAIN m \ {l} |-> m[k]]
BiMapGetByLeft(m, l) == IF l \in DOMAIN m THEN m[l] ELSE NoIp
BiMapGetByRight(m, r) ==
    IF \E k \in DOMAIN m : m[k] = r
    THEN CHOOSE k \in DOMAIN m : m[k] = r
    ELSE NoHost

(***************************************************************************)
(* lru::LruCache<String, ()> as a sequence, most recently used first.      *)
(***************************************************************************)
SeqWithout(q, h) == SelectSeq(q, LAMBDA x : x # h)
InSeq(q, h) == \E i \in 1..Len(q) : q[i] = h
\* LruCache::get: a present key moves to the front
LruGet(q, h) == IF InSeq(q, h) THEN <<h>> \o SeqWithout(q, h) ELSE q
\* LruCache::pop
LruPop(q, h) == SeqWithout(q, h)
\* LruCache::push: the key goes to the front; the old entry is the key itself
\* when it was present, else the least recently used one when the cache is full
LruPushOld(q, cap, h) ==
    IF InSeq(q, h) THEN h
    ELSE IF Len(q) >= cap THEN q[Len(q)]
    ELSE NoHost
\* the entry LruCache::push removed for want of room, or NoHost
LruEvicted(q, cap, h) ==
    IF LruPushOld(q, cap, h) # h THEN LruPushOld(q, cap, h) ELSE NoHost
LruPush(q, cap, h) ==
    IF InSeq(q, h) THEN <<h>> \o SeqWithout(q, h)
    ELSE IF Len(q) >= cap THEN <<h>> \o SubSeq(q, 1, Len(q) - 1)
    ELSE <<h>> \o q

(***************************************************************************)
(* The two stores behind IFakeIPStore (fakedns/mod.rs:19-36).  A store is  *)
(* one record: the fields of MemoryStore (two BiMaps and the LRU of hosts) *)
(* and the two column families of the cache file, each a map from a key to *)
(* a value.                                                                *)
(***************************************************************************)
EmptyCf == [k \in {} |-> NoKey]
\* MemoryStore::new
MemoryStoreNew(size) ==
    [kind |-> "Memory", size |-> size,
     host2ip4 |-> EmptyMap, host2ip6 |-> EmptyMap, host_lru |-> <<>>,
     fakeip |-> EmptyCf, fakeip6 |-> EmptyCf]
\* CacheFileStore::new over the column families created by with_cache_dir
CacheFileStoreNew ==
    [kind |-> "CacheFile", size |-> 0,
     host2ip4 |-> EmptyMap, host2ip6 |-> EmptyMap, host_lru |-> <<>>,
     fakeip |-> EmptyCf, fakeip6 |-> EmptyCf]

\* rocksdb put_cf and delete_cf on one column family
CfPut(cf, k, v) == [x \in DOMAIN cf \cup {k} |-> IF x = k THEN v ELSE cf[x]]
CfDelete(cf, k) == [x \in DOMAIN cf \ {k} |-> cf[x]]
CfGet(cf, k) == IF k \in DOMAIN cf THEN cf[k] ELSE NoKey

\* MemoryStore::get_fakeip: the value found, or NoKey
MemoryGetValue(s, k, ipv6) ==
    IF ParsesAsIp(k)
    THEN LET ip == ParseIp(k)
             host == IF ip.v6 THEN BiMapGetByRight(s.host2ip6, ip)
                     ELSE BiMapGetByRight(s.host2ip4, ip)
         IN  IF host # NoHost THEN AsBytes(host) ELSE NoKey
    ELSE LET host_or_ip == FromUtf8(k)
             ip == IF ~ipv6 THEN BiMapGetByLeft(s.host2ip4, host_or_ip)
                   ELSE BiMapGetByLeft(s.host2ip6, host_or_ip)
         IN  IF ip # NoIp THEN IpToString(ip) ELSE NoKey

\* the host whose LRU entry a get of key k hits ("ensure host in the head of
\* lru list"), or NoHost on a miss
MemoryGetHost(s, k, ipv6) ==
    IF MemoryGetValue(s, k, ipv6) = NoKey THEN NoHost
    ELSE IF ParsesAsIp(k) THEN FromUtf8(MemoryGetValue(s, k, ipv6))
    ELSE FromUtf8(k)

\* a get that finds the value and leaves the LRU as it is
MemoryGetStoreNoRefresh(s, k, ipv6) == s

\* MemoryStore::get_fakeip: the store afterwards
MemoryGetStore(s, k, ipv6) ==
    IF MemoryGetHost(s, k, ipv6) = NoHost THEN s
    ELSE [s EXCEPT !.host_lru = LruGet(@, MemoryGetHost(s, k, ipv6))]

\* CacheFile::get_fakeip
CacheFileGetValue(s, k, ipv6) ==
    IF ipv6 THEN CfGet(s.fakeip6, k) ELSE CfGet(s.fakeip, k)

\* IFakeIPStore::get_fakeip
get_fakeip_value(s, k, ipv6) ==
    IF s.kind = "Memory" THEN MemoryGetValue(s, k, ipv6)
    ELSE CacheFileGetValue(s, k, ipv6)
get_fakeip_store(s, k, ipv6) ==
    IF s.kind = "Memory" THEN MemoryGetStore(s, k, ipv6) ELSE s

\* MemoryStore::put_fakeip: the host the LRU returned and the maps dropped
MemoryPutDropped(s, host) ==
    LET old_host == LruPushOld(s.host_lru, s.size, host)
    IN  IF old_host # NoHost /\ ~eq_ignore_ascii_case(host, old_host)
        THEN old_host ELSE NoHost
MemoryPut(s, host, ip) ==
    LET dropped == MemoryPutDropped(s, host)
        m4 == IF dropped # NoHost THEN BiMapRemoveByLeft(s.host2ip4, dropped)
              ELSE s.host2ip4
        m6 == IF dropped # NoHost THEN BiMapRemoveByLeft(s.host2ip6, dropped)
              ELSE s.host2ip6
    IN  [s EXCEPT !.host_lru = LruPush(@, s.size, host),
                  !.host2ip4 = IF ip.v6 THEN m4 ELSE BiMapInsert(m4, host, ip),
                  !.host2ip6 = IF ip.v6 THEN BiMapInsert(m6, host, ip) ELSE m6]

\* MemoryStore::delete_fakeip
MemoryDelete(s, host, ip) ==
    [s EXCEPT !.host2ip4 = BiMapRemoveByLeft(@, host),
              !.host2ip6 = BiMapRemoveByLeft(@, host),
              !.host_lru = LruPop(@, host)]

\* CacheFile::put_fakeip: one transaction, put_cf(k1, k2) then put_cf(k2, k1)
\* in the column family of the address; nothing is written when it fails
CacheFilePut(s, host, ip, ok) ==
    LET k1 == AsBytes(host)
        k2 == IpToString(ip)
    IN  IF ~ok THEN s
        ELSE IF ip.v6
        THEN [s EXCEPT !.fakeip6 = CfPut(CfPut(@, k1, k2), k2, k1)]
        ELSE [s EXCEPT !.fakeip = CfPut(CfPut(@, k1, k2), k2, k1)]

\* CacheFile::delete_fakeip: one transaction, delete_cf(k1) then delete_cf(k2)
CacheFileDelete(s, host, ip, ok) ==
    LET k1 == AsBytes(host)
        k2 == IpToString(ip)
    IN  IF ~ok THEN s
        ELSE IF ip.v6
        THEN [s EXCEPT !.fakeip6 = CfDelete(CfDelete(@, k1), k2)]
        ELSE [s EXCEPT !.fakeip = CfDelete(CfDelete(@, k1), k2)]

\* IFakeIPStore::put_fakeip, delete_fakeip, exists
put_fakeip(s, host, ip, ok) ==
    IF s.kind = "Memory" THEN MemoryPut(s, host, ip)
    ELSE CacheFilePut(s, host, ip, ok)
delete_fakeip(s, host, ip, ok) ==
    IF s.kind = "Memory" THEN MemoryDelete(s, host, ip)
    ELSE CacheFileDelete(s, host, ip, ok)
exists(s, ip) ==
    IF s.kind = "Memory"
    THEN IF ip.v6 THEN BiMapGetByRight(s.host2ip6, ip) # NoHost
         ELSE BiMapGetByRight(s.host2ip4, ip) # NoHost
    ELSE CacheFileGetValue(s, IpToString(ip), ip.v6) # NoKey

(***************************************************************************)
(* FakeDns (fakedns/mod.rs:78-193)                                         *)
(***************************************************************************)
\* FakeDns::is_fake_ip
is_fake_ip(ip) ==
    IF ip.v6 THEN Contains(ipnet6, ip.n) ELSE Contains(ipnet, ip.n)

\* the slot at offset off is taken: one of its two addresses exists
SlotTaken(s, off) ==
    exists(s, gen_next_ipv4(ipnet, off)) \/ exists(s, gen_next_ipv6(ipnet6, off))

\* the loop of FakeDns::get: the offset it ends at, and whether it went
\* round the whole range and took the next slot by force
RECURSIVE ScanFrom(_, _, _)
ScanFrom(s, off, current) ==
    IF ~SlotTaken(s, off) THEN [offset |-> off, forced |-> FALSE]
    ELSE LET next == (off + 1) % total
         IN  IF next = current
             THEN [offset |-> (next + 1) % total, forced |-> TRUE]
             ELSE ScanFrom(s, next, current)

\* the offsets the loop of FakeDns::get probes with store.exists
RECURSIVE Probed(_, _, _)
Probed(s, off, current) ==
    IF ~SlotTaken(s, off) THEN <<off>>
    ELSE LET next == (off + 1) % total
         IN  IF next = current THEN <<off>>
             ELSE <<off>> \o Probed(s, next, current)

\* which of the four store writes of one FakeDns::get succeed
AllOk == [del4 |-> TRUE, del6 |-> TRUE, put4 |-> TRUE, put6 |-> TRUE]
WriteOutcomes == [del4 : BOOLEAN, del6 : BOOLEAN, put4 : BOOLEAN, put6 : BOOLEAN]

\* FakeDns::get: allocates a fake ip4 and ip6 for host
FakeDnsGet(s, off, host, ok) ==
    LET r == ScanFrom(s, off, off)
        ip4 == gen_next_ipv4(ipnet, r.offset)
        ip6 == gen_next_ipv6(ipnet6, r.offset)
        s1 == IF r.forced
              THEN delete_fakeip(delete_fakeip(s, host, ip4, ok.del4),
                                 host, ip6, ok.del6)
              ELSE s
        s2 == put_fakeip(put_fakeip(s1, host, ip4, ok.put4), host, ip6, ok.put6)
    IN  [store |-> s2, offset |-> r.offset, forced |-> r.forced,
         ip4 |-> ip4, ip6 |-> ip6,
         evicted |-> IF s.kind = "Memory" THEN LruEvicted(s1.host_lru, s1.size, host)
                     ELSE NoHost]

\* the writes of one FakeDns::get that failed
FailedWrites(forced, ok) ==
    (IF forced /\ ~ok.del4 THEN 1 ELSE 0) + (IF forced /\ ~ok.del6 THEN 1 ELSE 0)
    + (IF ~ok.put4 THEN 1 ELSE 0) + (IF ~ok.put6 THEN 1 ELSE 0)

\* history: host h was put or successfully got
Touch(q, h) == IF h = NoHost THEN q ELSE <<h>> \o SeqWithout(q, h)

\* FakeDns::lookup_ip: what it does to the allocator
lookup_ip(host, ipv6, ok) ==
    LET entity == get_fakeip_value(store, AsBytes(host), ipv6)
        g == FakeDnsGet(store, offset, host, ok)
    IN  /\ UNCHANGED <<total, ipnet, ipnet6>>
        /\ used' = Touch(used, host)
        /\ IF entity # NoKey
           THEN /\ ok = AllOk
                /\ store' = get_fakeip_store(store, AsBytes(host), ipv6)
                /\ last' = [op |-> "lookup_ip", host |-> host,
                            ip |-> ParseIp(entity), hit |-> TRUE,
                            forced |-> FALSE, evicted |-> NoHost]
                /\ UNCHANGED <<offset, faults>>
           ELSE /\ store.kind = "Memory" => ok = AllOk
                /\ ~g.forced => (ok.del4 /\ ok.del6)
                /\ faults + FailedWrites(g.forced, ok) <= MaxFaults
                /\ store' = g.store
                /\ offset' = g.offset
                /\ last' = [op |-> "lookup_ip", host |-> host,
                            ip |-> IF ~ipv6 THEN g.ip4 ELSE g.ip6, hit |-> FALSE,
                            forced |-> g.forced, evicted |-> g.evicted]
                /\ faults' = faults + FailedWrites(g.forced, ok)

\* FakeDns::lookup_ip, called on its own
LookupIp(host, ipv6, ok) ==
    /\ lookup_ip(host, ipv6, ok)
    /\ UNCHANGED notFakeDns

\* FakeDns::lookup_ip for a host that is the text of the address ip, while
\* the store holds that text as a key: the entity found is not the text of an
\* address and the result is None
lookup_ip_of_text(ip, ipv6) ==
    LET entity == get_fakeip_value(store, IpToString(ip), ipv6)
    IN  /\ entity # NoKey
        /\ store' = get_fakeip_store(store, IpToString(ip), ipv6)
        /\ last' = [op |-> "lookup_ip", host |-> NoHost,
                    ip |-> ParseIp(entity), hit |-> TRUE,
                    forced |-> FALSE, evicted |-> NoHost]
        /\ used' = Touch(used, FromUtf8(entity))
        /\ UNCHANGED <<offset, total, ipnet, ipnet6, faults>>

\* FakeDns::lookup_host: the host found, or NoHost
lookup_host(s, ip) == FromUtf8(get_fakeip_value(s, IpToString(ip), ip.v6))

LookupHost(ip) ==
    /\ store' = get_fakeip_store(store, IpToString(ip), ip.v6)
    /\ last' = [op |-> "lookup_host", host |-> lookup_host(store, ip),
                ip |-> NoIp, hit |-> lookup_host(store, ip) # NoHost,
                forced |-> FALSE, evicted |-> NoHost]
    /\ used' = Touch(used, lookup_host(store, ip))
    /\ UNCHANGED <<offset, total, ipnet, ipnet6, faults, notFakeDns>>

\* FakeDns::exist
Exist(ip) ==
    /\ last' = [op |-> "exist", host |-> NoHost, ip |-> NoIp,
                hit |-> exists(store, ip), forced |-> FALSE, evicted |-> NoHost]
    /\ UNCHANGED <<offset, total, ipnet, ipnet6, store, used, faults, notFakeDns>>

\* the addresses of the slots of both ranges
SlotAddrs ==
    {gen_next_ipv4(ipnet, k) : k \in 0..(total - 1)}
    \cup {gen_next_ipv6(ipnet6, k) : k \in 0..(total - 1)}

\* FakeDns::new with every configuration it accepts
FakeDnsNew ==
    \E persist \in BOOLEAN, size \in 1..MaxSize,
       bits4 \in 0..MaxHostBits, bits6 \in (MaxHostBits - 1)..MaxHostBits :
        /\ NewAccepts(bits4)
        /\ persist => size = 1
        /\ offset = 0
        /\ total = NewTotal(bits4)
        /\ ipnet = Ipv4Net(bits4)
        /\ ipnet6 = Ipv6Net(bits6)
        /\ store = IF persist THEN CacheFileStoreNew ELSE MemoryStoreNew(size)

NoCall == [op |-> "new", host |-> NoHost, ip |-> NoIp, hit |-> FALSE,
           forced |-> FALSE, evicted |-> NoHost]

FakeDnsInit ==
    /\ FakeDnsNew
    /\ last = NoCall
    /\ used = <<>>
    /\ faults = 0

\* a FakeDns that is never called
FakeDnsIdle ==
    /\ offset = 0
    /\ total = NewTotal(MaxHostBits)
    /\ ipnet = Ipv4Net(MaxHostBits)
    /\ ipnet6 = Ipv6Net(MaxHostBits)
    /\ store = MemoryStoreNew(1)
    /\ last = NoCall
    /\ used = <<>>
    /\ faults = 0

FakeDnsNext ==
    \/ \E host \in Hosts, ipv6 \in BOOLEAN, ok \in WriteOutcomes :
           LookupIp(host, ipv6, ok)
    \/ \E ip \in SlotAddrs : LookupHost(ip)
    \/ \E ip \in SlotAddrs : Exist(ip)

(***************************************************************************)
(* The SOCKS ingress: swiftlink-infra/src/auth.rs and                      *)
(* swiftlink/src/inbound/socks/tcp.rs                                      *)
(***************************************************************************)
\* the most methods one SOCKS5 handshake offers
MaxMethods == 2

\* the status of a failed username/password sub-negotiation
PASSWORD_AUTH_STATUS_FAILURE == 255

\* Arc<Option<Authenticator>>: None, or Some of a storage of user -> password
NoAuthenticator == [some |-> FALSE, storage |-> [u \in {} |-> ""]]
Authenticator(storage) == [some |-> TRUE, storage |-> storage]
Authenticators ==
    {NoAuthenticator,
     Authenticator([u \in {"u"} |-> "p"]),
     Authenticator([u \in {"v"} |-> ""])}

\* Authenticator::verify
verify(auth, user, pass) ==
    user \in DOMAIN auth.storage /\ auth.storage[user] = pass

\* what a client may send
Methods == {"NONE", "GSSAPI", "PASSWORD"}
MethodLists == UNION {[1..n -> Methods] : n \in 0..MaxMethods}
\* a SOCKS4 USERID; str::trim strips the blanks around " v "
UserIds == {"u", "v", " v ", ""}
trim(s) == IF s = " v " THEN "v" ELSE s
\* the UNAME and PASSWD of a sub-negotiation; utf8 = FALSE: str::from_utf8 fails
Unames == {[utf8 |-> TRUE, s |-> "u"], [utf8 |-> TRUE, s |-> "v"],
           [utf8 |-> FALSE, s |-> ""]}
Passwds == {[utf8 |-> TRUE, s |-> "p"], [utf8 |-> TRUE, s |-> ""],
            [utf8 |-> FALSE, s |-> ""]}
NoCred == [uname |-> "", passwd |-> "", read |-> FALSE]
\* the socket addresses of the peers that connect
Peers == {"10.0.0.1:1001", "10.0.0.2:1002"}
\* socks5::Address: a socket address or a domain name with a port
SocketAddress(a) == [kind |-> "SocketAddress", a |-> a]
DomainNameAddress(a) == [kind |-> "DomainNameAddress", a |-> a]
\* the destinations a request may name
Addresses == {SocketAddress("1.2.3.4:443"), DomainNameAddress("example.com:443")}
\* the command and destination of the request read; none before it is read
NoRequest == [command |-> "", addr |-> SocketAddress("0.0.0.0:0")]

\* the handler of a freshly accepted connection, before its first byte
\* peeked is what handle_tcp_client peeked (n < 0: nothing yet), pos the
\* number of bytes taken from the stream before the handshake reads, and
\* read_version the version byte the handshake read (-1: nothing yet)
ClientNew(peer_addr) ==
    [pc |-> "peek", peer_addr |-> peer_addr, version |-> 0, methods |-> <<>>,
     cred |-> NoCred, request |-> NoRequest, written |-> <<>>,
     result |-> "running", peeked |-> [n |-> -1, byte |-> 0], pos |-> 0,
     read_version |-> -1]

\* the handler returns Ok(()), Err(..), or panics; the stream is dropped
Return(c, result) == [c EXCEPT !.pc = "done", !.result = result]
\* X::write_to(stream): the reply is on the wire when the write succeeds
Written(c, reply, wok) ==
    IF wok THEN [c EXCEPT !.written = Append(@, reply)] ELSE c

\* InboundConnection::with_context(stream, meta)
\* a Metadata whose source and target changed places
MetadataSwapped(tag, source, target) ==
    [inbound_tag |-> tag, source |-> target, target |-> source]
\* with the Metadata the handlers fill in
Metadata(tag, source, target) ==
    [inbound_tag |-> tag, source |-> source, target |-> target]

\* a first read that takes the byte from the stream
peek_consuming(pos, n) == pos + n

\* TcpStream::peek: the bytes taken from the stream, none
peek(pos, n) == pos

\* the first byte a reader of the stream gets: the first byte of the stream
\* when nothing was taken, a later byte (not the version, 0 here) otherwise
NextByte(c) == IF c.pos = 0 THEN c.peeked.byte ELSE 0

\* handle_tcp_client: peeks the first byte of the stream
\* n = 0 is the end of the stream; byte is the version otherwise
HandleTcpClient(n, byte) ==
    /\ client.pc = "peek"
    /\ n = 0 => byte = 0
    /\ LET c == [client EXCEPT !.peeked = [n |-> n, byte |-> byte],
                               !.pos = peek(client.pos, n)]
       IN  client' =
             IF n = 0 THEN Return(c, "err")
             ELSE IF byte = 4 THEN [c EXCEPT !.pc = "socks4", !.version = 4]
             ELSE IF byte = 5 THEN [c EXCEPT !.pc = "socks5", !.version = 5]
             ELSE Return(c, "err")
    /\ UNCHANGED <<authenticator, tcp_in, dispatcher, notSocks>>

\* a ResultCode that grants every command
ResultCodeGranted(cd) == "RequestGranted"
\* the ResultCode socks4_impl::handle_client answers a command with
ResultCode(cd) ==
    IF cd = "Connect" THEN "RequestGranted" ELSE "RequestRejectedOrFailed"
\* socks4::Address into socks5::Address: the same variant and content
Socks4AddressInto(dst) ==
    IF dst.kind = "SocketAddress" THEN SocketAddress(dst.a)
    ELSE DomainNameAddress(dst.a)

\* socks4_impl::handle_client
\* read: "eof", "err" or "ok" for HandshakeRequest::read_from; cd and user_id
\* and dst are the request read; wok: the write of the response succeeds; sok:
\* tcp_in.send succeeds
Socks4HandleClient(read, cd, dst, user_id, wok, sok) ==
    /\ client.pc = "socks4"
    /\ read # "ok" => (cd = "Connect" /\ dst = SocketAddress("1.2.3.4:443")
                       /\ user_id = "" /\ wok /\ sok)
    /\ LET c == IF read = "ok"
                THEN [client EXCEPT
                        !.read_version = NextByte(client),
                        !.cred = [uname |-> trim(user_id), passwd |-> "",
                                  read |-> TRUE],
                        !.request = [command |-> cd, addr |-> dst]]
                ELSE client
           rejected == authenticator.some
                       /\ ~verify(authenticator, trim(user_id), "")
       IN  IF read = "eof" THEN
               /\ client' = Return(c, "ok")
               /\ UNCHANGED tcp_in
           ELSE IF read = "err" THEN
               /\ client' = Return(c, "err")
               /\ UNCHANGED tcp_in
           ELSE IF rejected THEN
               /\ sok
               /\ client' = Return(
                      Written(c, [kind |-> "socks4", code |-> "RequestRejectedDifferentUserId"], wok),
                      IF wok THEN "ok" ELSE "err")
               /\ UNCHANGED tcp_in
           ELSE IF cd = "Connect" THEN
               /\ ~wok => sok
               /\ client' = Return(
                      Written(c, [kind |-> "socks4", code |-> ResultCode(cd)], wok),
                      IF wok THEN "ok" ELSE "err")
               /\ tcp_in' = IF wok /\ sok
                            THEN Append(tcp_in,
                                     Metadata("SOCKS4",
                                              SocketAddress(client.peer_addr),
                                              Socks4AddressInto(dst)))
                            ELSE tcp_in
           ELSE
               /\ sok
               /\ client' = Return(
                      Written(c, [kind |-> "socks4", code |-> ResultCode(cd)], wok),
                      IF wok THEN "ok" ELSE "err")
               /\ UNCHANGED tcp_in
    /\ UNCHANGED <<authenticator, dispatcher, notSocks>>

\* socks5_impl::handle_client, step 1: HandshakeRequest::read_from
Socks5Handshake(read, methods) ==
    /\ client.pc = "socks5"
    /\ read # "ok" => methods = <<>>
    /\ client' =
         IF read = "eof" THEN Return(client, "ok")
         ELSE IF read = "err" THEN Return(client, "err")
         ELSE [client EXCEPT !.pc = "check_auth", !.methods = methods,
                             !.read_version = NextByte(client)]
    /\ UNCHANGED <<authenticator, tcp_in, dispatcher, notSocks>>

\* the loop of check_auth over the offered methods, in their order: the
\* method the server replies with
RECURSIVE check_auth_from(_, _, _)
check_auth_from(methods, i, auth) ==
    IF i > Len(methods) THEN "NOT_ACCEPTABLE"
    ELSE IF methods[i] = "PASSWORD" THEN "PASSWORD"
    ELSE IF methods[i] = "NONE" /\ ~auth.some THEN "NONE"
    ELSE check_auth_from(methods, i + 1, auth)

\* a selection that takes NONE whether or not a credential store is configured
RECURSIVE check_auth_any_none(_, _, _)
check_auth_any_none(methods, i, auth) ==
    IF i > Len(methods) THEN "NOT_ACCEPTABLE"
    ELSE IF methods[i] = "PASSWORD" THEN "PASSWORD"
    ELSE IF methods[i] = "NONE" THEN "NONE"
    ELSE check_auth_any_none(methods, i + 1, auth)
check_auth_none_allowed(methods, auth) == check_auth_any_none(methods, 1, auth)

check_auth(methods, auth) == check_auth_from(methods, 1, auth)

\* socks5_impl::check_auth as called by handle_client
CheckAuth(wok) ==
    /\ client.pc = "check_auth"
    /\ LET method == check_auth(client.methods, authenticator)
           c == Written(client, [kind |-> "method", code |-> method], wok)
       IN  client' =
             IF ~wok \/ method = "NOT_ACCEPTABLE" THEN Return(c, "err")
             ELSE IF method = "PASSWORD" THEN [c EXCEPT !.pc = "passwd"]
             ELSE [c EXCEPT !.pc = "request"]
    /\ UNCHANGED <<authenticator, tcp_in, dispatcher, notSocks>>

\* Error::as_reply().as_u8() of a failed read: a reply code that is no success
ErrAsReply == -1

\* socks5_impl::check_auth_password
\* read: PasswdAuthRequest::read_from is "ok" or "err"
CheckAuthPassword(read, uname, passwd, wok) ==
    /\ client.pc = "passwd"
    /\ read # "ok" => (uname.utf8 /\ uname.s = "u" /\ passwd.utf8 /\ passwd.s = "p")
    /\ (read = "ok" /\ uname.utf8 /\ passwd.utf8 /\ ~authenticator.some) => wok
    /\ LET status(code) == [kind |-> "status", code |-> code]
           c == [client EXCEPT !.cred = [uname |-> uname.s, passwd |-> passwd.s,
                                         read |-> TRUE]]
       IN  client' =
             IF read = "err"
             THEN Return(Written(client, status(ErrAsReply), wok), "err")
             ELSE IF ~uname.utf8 \/ ~passwd.utf8
             THEN \* no credentials to compare: from_utf8 gave no str
                  Return(Written(client, status(PASSWORD_AUTH_STATUS_FAILURE), wok),
                         "err")
             ELSE IF authenticator.some
             THEN IF verify(authenticator, uname.s, passwd.s)
                  THEN IF wok THEN [Written(c, status(0), wok) EXCEPT !.pc = "request"]
                       ELSE Return(c, "err")
                  ELSE Return(Written(c, status(PASSWORD_AUTH_STATUS_FAILURE), wok),
                              "err")
             ELSE [c EXCEPT !.pc = "request"]
    /\ UNCHANGED <<authenticator, tcp_in, dispatcher, notSocks>>

\* socks5_impl::handle_client, steps 3 and 4: TcpRequestHeader::read_from and
\* the command; read is "ok" or "err"
Socks5Request(read, command, addr, wok, sok) ==
    /\ client.pc = "request"
    /\ read # "ok" => (command = "TcpConnect" /\ sok
                       /\ addr = SocketAddress("1.2.3.4:443"))
    /\ (read = "ok" /\ command # "TcpBind") => wok
    /\ (read = "ok" /\ command # "TcpConnect") => sok
    /\ LET reply(code) == [kind |-> "reply", code |-> code]
           c == [client EXCEPT !.request = [command |-> command, addr |-> addr]]
       IN  IF read = "err" THEN
               /\ client' = Return(Written(client, reply("ErrAsReply"), wok), "err")
               /\ UNCHANGED tcp_in
           ELSE IF command = "TcpConnect" THEN
               /\ client' = Return(c, "ok")
               /\ tcp_in' = IF sok
                            THEN Append(tcp_in,
                                     Metadata("SOCKS5",
                                              SocketAddress(client.peer_addr),
                                              addr))
                            ELSE tcp_in
           ELSE IF command = "UdpAssociate" THEN
               \* todo!()
               /\ client' = Return(c, "panic")
               /\ UNCHANGED tcp_in
           ELSE
               /\ client' = Return(
                      Written(c, reply("CommandNotSupported"), wok),
                      IF wok THEN "ok" ELSE "err")
               /\ UNCHANGED tcp_in
    /\ UNCHANGED <<authenticator, dispatcher, notSocks>>

\* Dispatcher::dispatch_stream on the connection at the head of tcp_in:
\* todo!("dispatch stream") panics before it touches the stream
DispatchStream ==
    /\ dispatcher = "idle"
    /\ tcp_in # <<>>
    /\ dispatcher' = "panic"
    /\ UNCHANGED <<authenticator, client, tcp_in, notSocks>>

SocksInit ==
    /\ authenticator \in Authenticators
    /\ client \in {ClientNew(p) : p \in Peers}
    /\ tcp_in = <<>>
    /\ dispatcher = "idle"

\* a SOCKS ingress that accepts no connection
SocksIdle ==
    /\ authenticator = NoAuthenticator
    /\ client = Return(ClientNew("10.0.0.1:1001"), "ok")
    /\ tcp_in = <<>>
    /\ dispatcher = "idle"

SocksNext ==
    \/ \E n \in {0, 1}, byte \in {0, 4, 5, 1} : HandleTcpClient(n, byte)
    \/ \E read \in {"eof", "err", "ok"}, cd \in {"Connect", "Bind"},
          dst \in Addresses, user_id \in UserIds, wok \in BOOLEAN,
          sok \in BOOLEAN :
           Socks4HandleClient(read, cd, dst, user_id, wok, sok)
    \/ \E read \in {"eof", "err", "ok"}, methods \in MethodLists :
           Socks5Handshake(read, methods)
    \/ \E wok \in BOOLEAN : CheckAuth(wok)
    \/ \E read \in {"err", "ok"}, uname \in Unames, passwd \in Passwds,
          wok \in BOOLEAN : CheckAuthPassword(read, uname, passwd, wok)
    \/ \E read \in {"err", "ok"},
          command \in {"TcpConnect", "UdpAssociate", "TcpBind"},
          addr \in Addresses, wok \in BOOLEAN, sok \in BOOLEAN :
           Socks5Request(read, command, addr, wok, sok)
    \/ DispatchStream

(***************************************************************************)
(* Upstream connections through a proxy: swiftlink-dns/src/proxy.rs        *)
(***************************************************************************)
\* the socket addresses of nameservers and of proxies
NameServerAddrs == {[ip |-> "8.8.8.8", port |-> 53], [ip |-> "1.1.1.1", port |-> 853]}
ProxyServers == {[ip |-> "10.1.1.1", port |-> 1080]}

\* Option<&ProxyConfig>
NoProxy == [some |-> FALSE, proto |-> "", server |-> [ip |-> "", port |-> 0],
            username |-> "", has_user |-> FALSE]
ProxyConfig(proto, server, has_user) ==
    [some |-> TRUE, proto |-> proto, server |-> server,
     username |-> IF has_user THEN "user" ELSE "", has_user |-> has_user]
ProxyConfigs ==
    {NoProxy} \cup {ProxyConfig(proto, srv, u) :
                      proto \in {"Socks5", "Http"}, srv \in ProxyServers,
                      u \in BOOLEAN}

\* no call of connect_tcp yet
NoConnect ==
    [server_addr |-> [ip |-> "", port |-> 0], proxy |-> NoProxy,
     dialed |-> <<>>, requests |-> <<>>, result |-> "none"]

\* create_tcp_stream(addr): crate_tcp_stream_with_opts dials addr
create_tcp_stream(t, addr) == [t EXCEPT !.dialed = Append(@, addr)]

\* proxy::connect_tcp(server_addr, proxy, opts)
\* dial_ok: the TCP connect succeeds; hs_ok: the proxy accepts the CONNECT
ConnectTcp(server_addr, proxy, dial_ok, hs_ok) ==
    /\ ~dial_ok => hs_ok
    /\ ~proxy.some => hs_ok
    /\ LET target == [addr |-> server_addr.ip, port |-> server_addr.port]
           t0 == [NoConnect EXCEPT !.server_addr = server_addr, !.proxy = proxy]
           t1 == create_tcp_stream(t0, server_addr)
           request == [proto |-> proxy.proto, command |-> "CONNECT",
                       target |-> target, auth |-> proxy.has_user]
       IN  tcp' =
             IF ~dial_ok THEN [t1 EXCEPT !.result = "err"]
             ELSE IF ~proxy.some THEN [t1 EXCEPT !.result = "Tokio"]
             ELSE [t1 EXCEPT !.requests = Append(@, request),
                             !.result = IF ~hs_ok THEN "err"
                                        ELSE IF proxy.proto = "Socks5" THEN "Proxy"
                                        ELSE "Tokio"]
    /\ UNCHANGED <<servers, tasks, ready, lookup, completed, notDns>>

(***************************************************************************)
(* NameServerGroup::lookup: swiftlink-dns/src/client.rs                    *)
(***************************************************************************)
\* the most members of a NameServerGroup
MaxServers == 3

\* Result<Lookup, LookupError> of one member
OkLookup(records) == [ok |-> TRUE, records |-> records, err |-> ""]
ErrLookup(err) == [ok |-> FALSE, records |-> {}, err |-> err]
Results == {OkLookup({}), OkLookup({"93.184.216.34"}), OkLookup({"93.184.216.35"}),
            ErrLookup("timeout")}
Pending == [ok |-> FALSE, records |-> {}, err |-> "pending"]
\* the lookup did not start, did not return, or its task panicked
NoLookup == [pc |-> "idle", res |-> Pending]

\* a match that returns at the first Ok, empty or not
IsAnswerAnyOk(res) == res.ok
\* a match that never returns early
IsAnswerNever(res) == FALSE
\* matches!(res.as_ref(), Ok(lookup) if !lookup.records().is_empty())
IsAnswer(res) == res.ok /\ res.records # {}

\* Vec::swap_remove(idx) as select_all applies it to the futures left
swap_remove(v, idx) ==
    LET n == Len(v)
    IN  [i \in 1..(n - 1) |-> IF i = idx THEN v[n] ELSE v[i]]

\* the index select_all returns: the first future of the vector that is ready
FirstReady(v, rdy) ==
    CHOOSE i \in 1..Len(v) :
        /\ rdy[v[i]] # Pending
        /\ \A j \in 1..(i - 1) : rdy[v[j]] = Pending

\* NameServerGroup::lookup up to its first select_all
\* name_ok: name.into_name() succeeds
GroupLookup(name_ok) ==
    /\ lookup.pc = "idle"
    /\ IF ~name_ok THEN
           /\ lookup' = [pc |-> "done", res |-> ErrLookup("proto")]
           /\ UNCHANGED tasks
       ELSE IF servers = 0 THEN
           \* select_all asserts that it is given at least one future
           /\ lookup' = [pc |-> "panic", res |-> Pending]
           /\ UNCHANGED tasks
       ELSE
           /\ lookup' = [pc |-> "select", res |-> Pending]
           /\ tasks' = [i \in 1..servers |-> i]
    /\ UNCHANGED <<tcp, servers, ready, completed, notDns>>

\* the lookup of member ns gets its result while select_all is awaited
MemberReady(ns, res) ==
    /\ lookup.pc = "select"
    /\ \E i \in 1..Len(tasks) : tasks[i] = ns
    /\ ready[ns] = Pending
    /\ ready' = [ready EXCEPT ![ns] = res]
    /\ UNCHANGED <<tcp, servers, tasks, lookup, completed, notDns>>

\* select_all(tasks).await returns and the body of the loop runs
SelectAll ==
    /\ lookup.pc = "select"
    /\ \E i \in 1..Len(tasks) : ready[tasks[i]] # Pending
    /\ LET idx == FirstReady(tasks, ready)
           res == ready[tasks[idx]]
           rest == swap_remove(tasks, idx)
       IN  /\ completed' = Append(completed, [ns |-> tasks[idx], res |-> res])
           /\ tasks' = rest
           /\ lookup' = IF IsAnswer(res) THEN [pc |-> "done", res |-> res]
                        ELSE IF rest = <<>> THEN [pc |-> "done", res |-> res]
                        ELSE lookup
    /\ UNCHANGED <<tcp, servers, ready, notDns>>

DnsInit ==
    /\ tcp = NoConnect
    /\ servers \in 0..MaxServers
    /\ tasks = <<>>
    /\ ready = [ns \in 1..servers |-> Pending]
    /\ lookup = NoLookup
    /\ completed = <<>>

\* a resolver that is never used
DnsIdle ==
    /\ tcp = NoConnect
    /\ servers = 0
    /\ tasks = <<>>
    /\ ready = <<>>
    /\ lookup = NoLookup
    /\ completed = <<>>

DnsNext ==
    \/ \E server_addr \in NameServerAddrs, proxy \in ProxyConfigs,
          dial_ok \in BOOLEAN, hs_ok \in BOOLEAN :
           ConnectTcp(server_addr, proxy, dial_ok, hs_ok)
    \/ \E name_ok \in BOOLEAN : GroupLookup(name_ok)
    \/ \E ns \in 1..servers, res \in Results : MemberReady(ns, res)
    \/ SelectAll

(***************************************************************************)
(* The domain trie: swiftlink-infra/src/trie                               *)
(***************************************************************************)
\* the most labels of an inserted pattern or a searched domain
MaxLabels == 3
\* the most inserts into one trie
MaxInserts == 2

\* consts
WILDCARD == "*"
DOT_WILDCARD == ""
COMPLEX_WILDCARD == "+"

\* a domain is the sequence of its labels, as split('.') yields them:
\* "www.example.com" is <<"www", "example", "com">>, ".dev" is <<"", "dev">>,
\* "" is <<"">> and "dev." is <<"dev", "">>
PatternLabels == {"a", "b", WILDCARD, DOT_WILDCARD, COMPLEX_WILDCARD}
DomainLabels == {"a", "b"}
SeqsOf(labels) == UNION {[1..n -> labels] : n \in 1..MaxLabels}
\* the domains searched: well-formed ones, and "", ".a" and "a."
Domains == SeqsOf(DomainLabels) \cup {<<"">>, <<"", "a">>, <<"a", "">>}

Reverse(q) == [i \in 1..Len(q) |-> q[Len(q) + 1 - i]]

\* Option<T>::None; the data of the n-th insert is n
None == 0

\* TrieNode::new() at the root: no data, no children
TrieNew == [path \in {<<>>} |-> None]

\* a validation that does not look at the labels after the first
valid_and_split_domain_first_only(parts) ==
    /\ ~(parts # <<"">> /\ Len(parts) >= 2 /\ parts[Len(parts)] = "")
    /\ Len(parts) = 1 => parts[1] # ""

\* valid_and_split_domain(domain) is Ok
valid_and_split_domain(parts) ==
    /\ ~(parts # <<"">> /\ Len(parts) >= 2 /\ parts[Len(parts)] = "")
    /\ IF Len(parts) = 1 THEN parts[1] # ""
       ELSE \A i \in 2..Len(parts) : parts[i] # ""

\* DomainTrie::insert_inner
insert_inner(t, parts, data) ==
    LET path == Reverse(parts)
        nodes == DOMAIN t \cup {SubSeq(path, 1, n) : n \in 0..Len(path)}
    IN  [node \in nodes |->
            IF node = path THEN data
            ELSE IF node \in DOMAIN t THEN t[node]
            ELSE None]

\* an insert of `+.d` that stores d alone
insert_without_dot(t, parts, data) ==
    IF parts[1] = COMPLEX_WILDCARD
    THEN insert_inner(t, Tail(parts), data)
    ELSE insert_inner(t, parts, data)

\* DomainTrie::insert, for a domain that is valid
insert(t, parts, data) ==
    IF parts[1] = COMPLEX_WILDCARD
    THEN insert_inner(insert_inner(t, Tail(parts), data),
                      <<DOT_WILDCARD>> \o Tail(parts), data)
    ELSE insert_inner(t, parts, data)

\* a search whose `*` child stands for all the labels that remain
RECURSIVE search_inner_star_rest(_, _, _)
search_inner_star_rest(t, node, parts) ==
    IF parts = <<>> THEN t[node]
    ELSE LET exact == Append(node, parts[1])
             wild == Append(node, WILDCARD)
             dot == Append(node, DOT_WILDCARD)
             r1 == IF exact \in DOMAIN t
                   THEN search_inner_star_rest(t, exact, Tail(parts)) ELSE None
             r2 == IF wild \in DOMAIN t
                   THEN IF t[wild] # None THEN t[wild]
                        ELSE search_inner_star_rest(t, wild, Tail(parts))
                   ELSE None
         IN  IF r1 # None THEN r1
             ELSE IF r2 # None THEN r2
             ELSE IF dot \in DOMAIN t THEN t[dot] ELSE None

\* a search that tries the `*` child before the exact child
RECURSIVE search_inner_wild_first(_, _, _)
search_inner_wild_first(t, node, parts) ==
    IF parts = <<>> THEN t[node]
    ELSE LET exact == Append(node, parts[1])
             wild == Append(node, WILDCARD)
             dot == Append(node, DOT_WILDCARD)
             r1 == IF wild \in DOMAIN t
                   THEN search_inner_wild_first(t, wild, Tail(parts)) ELSE None
             r2 == IF exact \in DOMAIN t
                   THEN search_inner_wild_first(t, exact, Tail(parts)) ELSE None
         IN  IF r1 # None THEN r1
             ELSE IF r2 # None THEN r2
             ELSE IF dot \in DOMAIN t THEN t[dot] ELSE None

\* DomainTrie::search_inner
RECURSIVE search_inner(_, _, _)
search_inner(t, node, parts) ==
    IF parts = <<>> THEN t[node]
    ELSE LET exact == Append(node, parts[1])
             wild == Append(node, WILDCARD)
             dot == Append(node, DOT_WILDCARD)
             r1 == IF exact \in DOMAIN t
                   THEN search_inner(t, exact, Tail(parts)) ELSE None
             r2 == IF wild \in DOMAIN t
                   THEN search_inner(t, wild, Tail(parts)) ELSE None
         IN  IF r1 # None THEN r1
             ELSE IF r2 # None THEN r2
             ELSE IF dot \in DOMAIN t THEN t[dot] ELSE None

\* a search that takes a domain with a leading dot as well
search_leading_dot(t, parts) ==
    IF valid_and_split_domain(parts)
    THEN search_inner(t, <<>>, Reverse(parts))
    ELSE None

\* DomainTrie::search
search(t, parts) ==
    IF valid_and_split_domain(parts) /\ parts[1] # ""
    THEN search_inner(t, <<>>, Reverse(parts))
    ELSE None

NoSearch == [domain |-> <<>>, data |-> None]
NoInsert == [parts |-> <<>>, err |-> FALSE]

\* tree.insert(domain, data): Err(InvalidDomain) leaves the trie as it is
Insert(parts) ==
    /\ Len(inserted) < MaxInserts
    /\ IF valid_and_split_domain(parts)
       THEN /\ root' = insert(root, parts, Len(inserted) + 1)
            /\ inserted' = Append(inserted, [parts |-> parts,
                                             data |-> Len(inserted) + 1])
       ELSE UNCHANGED <<root, inserted>>
    /\ called' = [parts |-> parts, err |-> ~valid_and_split_domain(parts)]
    /\ found' = NoSearch
    /\ UNCHANGED notTrie

\* tree.search(domain)
Search(parts) ==
    /\ found' = [domain |-> parts, data |-> search(root, parts)]
    /\ called' = NoInsert
    /\ UNCHANGED <<root, inserted, notTrie>>

TrieInit ==
    /\ root = TrieNew
    /\ found = NoSearch
    /\ inserted = <<>>
    /\ called = NoInsert

\* a trie that is never used
TrieIdle == TrieInit

TrieNext ==
    \/ \E parts \in SeqsOf(PatternLabels) : Insert(parts)
    \/ \E parts \in Domains : Search(parts)

(***************************************************************************)
(* The DNS front end: swiftlink-dns/src/server.rs and                      *)
(* swiftlink-dns/src/dns_handle                                            *)
(***************************************************************************)
\* the query types drawn: the four the fake-IP handler names, and TXT for
\* every other type
RecordTypes == {"A", "AAAA", "SVCB", "HTTPS", "TXT"}
\* Edns of a request: its version, or NoEdns for a request without EDNS
NoEdns == -1
\* "TODO: what version are we?"
our_version == 0

\* a query name: the host its labels spell, or the address whose text they
\* spell ("198.18.0.2." is a name of four labels)
HostName(h) == [labels |-> h, ip |-> NoIp]
TextName(ip) == [labels |-> "", ip |-> ip]
\* Name::to_ascii: the labels and the dot of the root, one after the other
Dot == [labels |-> ".", ip |-> NoIp]
to_ascii(name) == <<name, Dot>>
\* str::trim_end_matches('.')
RECURSIVE trim_end_matches(_)
trim_end_matches(s) ==
    IF s # <<>> /\ s[Len(s)] = Dot THEN trim_end_matches(SubSeq(s, 1, Len(s) - 1))
    ELSE s

\* the requests drawn: every header with the question `b. A`, and every
\* question under the headers that let the query through
Headers ==
    [message_type : {"Query", "Response"}, op_code : {"Query", "Update"},
     edns : {NoEdns, 0, 1}, recursion_desired : BOOLEAN]
Questions ==
    [name : {HostName(h) : h \in {"a", "b"}} \cup {TextName(ip) : ip \in SlotAddrs},
     query_type : RecordTypes]
Request(h, q) ==
    [message_type |-> h.message_type, op_code |-> h.op_code, edns |-> h.edns,
     recursion_desired |-> h.recursion_desired, name |-> q.name,
     query_type |-> q.query_type]
Requests ==
    {Request(h, [name |-> HostName("b"), query_type |-> "A"]) : h \in Headers}
    \cup {Request(h, q) : h \in {x \in Headers : /\ x.message_type = "Query"
                                                 /\ x.op_code = "Query"
                                                 /\ x.edns # 1
                                                 /\ x.recursion_desired},
                          q \in Questions}
NoRequestYet == [message_type |-> "none"]

\* a Lookup, or the error a handler returns
Ok(records) == [ok |-> TRUE, records |-> records, err |-> "", soa |-> FALSE]
Err(kind, soa) == [ok |-> FALSE, records |-> <<>>, err |-> kind, soa |-> soa]
\* what the upstream client answers to a lookup that is sent to it
UpstreamResults(req) ==
    {Ok(<<[name |-> req.name, rtype |-> req.query_type, ttl |-> 60, ip |-> NoIp]>>),
     Err("NXDomain", TRUE), Err("Timeout", FALSE)}

\* FakeDnsHandle::handle, A or AAAA: the record made of the address
FakeRecord(req, ip) ==
    [name |-> req.name, rtype |-> IF ip.v6 THEN "AAAA" ELSE "A", ttl |-> 1,
     ip |-> ip]

\* DnsRequestHandleNext::run on an empty chain
NoRecordsFound == Err("ServFail", TRUE)

\* LookupError::is_nx_domain
is_nx_domain(e) == e.err = "NXDomain"

\* a front end that answers a non-Query opcode before it looks at the
\* message type
handle_request_error_opcode_first(req) ==
    IF req.op_code # "Query" THEN "NotImp"
    ELSE IF req.message_type = "Response" THEN "FormErr"
    ELSE IF req.edns # NoEdns /\ req.edns > our_version THEN "BADVERS"
    ELSE "NoError"

\* ServerHandle::handle_request: the response code of a request that is
\* answered before the query is looked at, or NoError
handle_request_error(req) ==
    IF req.message_type = "Response" THEN "FormErr"
    ELSE IF req.op_code # "Query" THEN "NotImp"
    ELSE IF req.edns # NoEdns /\ req.edns > our_version THEN "BADVERS"
    ELSE "NoError"

\* a front end that performs the recursive query whatever the request asks
recursion_always(req) == FALSE

\* send_forwarded_response: "Don't perform the recursive query if this is
\* disabled"
recursion_disabled(req) == ~req.recursion_desired

\* MessageResponseBuilder::error_msg, build_no_records: a response without
\* records
ErrorMsg(code) ==
    [code |-> code, answers |-> <<>>, authoritative |-> FALSE,
     recursion_available |-> FALSE]

\* LookupError::as_soa: the SOA record of the error, as a Lookup
as_soa(req) == <<[name |-> req.name, rtype |-> "SOA", ttl |-> 0, ip |-> NoIp]>>

\* send_forwarded_response and the response built of its sections
ForwardedResponse(req, res) ==
    [code |-> IF ~res.ok /\ is_nx_domain(res) THEN "NXDomain" ELSE "NoError",
     answers |-> IF res.ok THEN res.records
                 ELSE IF res.soa THEN as_soa(req) ELSE <<>>,
     authoritative |-> FALSE, recursion_available |-> TRUE]

\* ForwardHandle::handle: the local store of the bootstrap resolver first,
\* the upstream client otherwise; hs are the handlers that ran before it
ForwardHandle(req, hs, up) ==
    LET query == [name |-> req.name, query_type |-> req.query_type]
    IN  /\ ran' = Append(hs, "ForwardHandle")
        /\ IF query \in ip_store
           THEN /\ sent' = <<>>
                /\ response' = ForwardedResponse(req, Ok(<<[name |-> req.name,
                                   rtype |-> req.query_type, ttl |-> 60,
                                   ip |-> NoIp]>>))
           ELSE /\ sent' = <<[name |-> req.name, record_type |-> req.query_type,
                             client_subnet |-> "None"]>>
                /\ response' = ForwardedResponse(req, up)

\* DnsRequestHandleNext::run on the rest of the chain after hs
Run(req, hs, rest, up) ==
    IF rest = <<>>
    THEN /\ ran' = hs
         /\ sent' = <<>>
         /\ response' = ForwardedResponse(req, NoRecordsFound)
    ELSE ForwardHandle(req, hs, up)

\* FakeDnsHandle::handle; every write of the store succeeds
FakeDnsHandle(req, rest, up) ==
    IF req.query_type \in {"A", "AAAA"}
    THEN LET ipv6 == req.query_type = "AAAA"
             host == trim_end_matches(to_ascii(req.name))[1]
         IN  /\ IF host.ip = NoIp THEN lookup_ip(host.labels, ipv6, AllOk)
                ELSE lookup_ip_of_text(host.ip, ipv6)
             /\ IF last'.ip # NoIp
                THEN /\ ran' = <<"FakeDnsHandle">>
                     /\ sent' = <<>>
                     /\ response' =
                            ForwardedResponse(req, Ok(<<FakeRecord(req, last'.ip)>>))
                ELSE Run(req, <<"FakeDnsHandle">>, rest, up)
    ELSE /\ UNCHANGED fakeVars
         /\ IF req.query_type \in {"SVCB", "HTTPS"}
            THEN /\ ran' = <<"FakeDnsHandle">>
                 /\ sent' = <<>>
                 /\ response' = ForwardedResponse(req, Err("NXDomain", FALSE))
            ELSE Run(req, <<"FakeDnsHandle">>, rest, up)

\* DnsRequestHandler::search
HandlerSearch(req, up) ==
    IF handle_stack[1] = "FakeDnsHandle"
    THEN FakeDnsHandle(req, Tail(handle_stack), up)
    ELSE /\ UNCHANGED fakeVars
         /\ Run(req, <<>>, handle_stack, up)

\* ServerHandle::handle_request
HandleRequest(req, up) ==
    /\ dns_request' = req
    /\ UNCHANGED <<handle_stack, ip_store, notServer>>
    /\ IF handle_request_error(req) # "NoError"
       THEN /\ up = Err("Timeout", FALSE)
            /\ response' = ErrorMsg(handle_request_error(req))
            /\ ran' = <<>>
            /\ sent' = <<>>
            /\ UNCHANGED fakeVars
       ELSE IF recursion_disabled(req)
       THEN /\ up = Err("Timeout", FALSE)
            /\ response' = ForwardedResponse(req, Ok(<<>>))
            /\ ran' = <<>>
            /\ sent' = <<>>
            /\ UNCHANGED fakeVars
       ELSE HandlerSearch(req, up)

\* ServerHandleBuilder::build, with and without with_fakedns; the allocator
\* has two slots in each family
ServerInit ==
    /\ FakeDnsInit
    /\ ipnet.bits = 2 /\ ipnet6.bits = 2
    /\ handle_stack \in {<<"FakeDnsHandle", "ForwardHandle">>, <<"ForwardHandle">>}
    /\ ip_store \in {{}, {[name |-> HostName("a"), query_type |-> "A"]}}
    /\ dns_request = NoRequestYet
    /\ response = ErrorMsg("NoError")
    /\ ran = <<>>
    /\ sent = <<>>

\* a front end that is never asked
ServerIdle ==
    /\ handle_stack = <<"ForwardHandle">>
    /\ ip_store = {}
    /\ dns_request = NoRequestYet
    /\ response = ErrorMsg("NoError")
    /\ ran = <<>>
    /\ sent = <<>>

ServerNext ==
    \E req \in Requests :
        \E up \in UpstreamResults(req) : HandleRequest(req, up)

(***************************************************************************)
(* The deadline of a Lookup: NameServer::lookup in                         *)
(* swiftlink-dns/src/client.rs                                             *)
(***************************************************************************)
\* the most answer records of one upstream response
MaxAnswers == 3

\* "Setting this to a value of 1 day, in seconds"
MAX_TTL == 86400

\* Record::ttl is a u32 that is widened to u64 before it is added, so that
\* nothing wraps; the TTLs drawn are 0, 1, the values around MAX_TTL and one
\* far above it
Ttls == {0, 1, MAX_TTL - 1, MAX_TTL, MAX_TTL + 1, 2 ^ 30}
\* the instants drawn for Instant::now(), in seconds
Instants == {0, 7}

\* Iterator::min of a non-empty sequence
Min(s) == CHOOSE x \in {s[i] : i \in 1..Len(s)} : \A i \in 1..Len(s) : x <= s[i]

\* NameServer::lookup: the seconds added to Instant::now()
valid_for(ttls) == IF ttls = <<>> THEN MAX_TTL ELSE Min(ttls)

NoNsLookup == [done |-> FALSE, ttls |-> <<>>, now |-> 0, valid_until |-> 0]

\* NameServer::lookup, from the first answer on; ttls are the TTLs of the
\* answer records
NameServerLookup(ttls, now) ==
    /\ ns_lookup' = [done |-> TRUE, ttls |-> ttls, now |-> now,
                     valid_until |-> now + valid_for(ttls)]
    /\ UNCHANGED notNs

NsInit == ns_lookup = NoNsLookup

\* a name server that is never asked
NsIdle == NsInit

NsNext ==
    \E ttls \in UNION {[1..n -> Ttls] : n \in 0..MaxAnswers}, now \in Instants :
        NameServerLookup(ttls, now)

(***************************************************************************)
(* UDP associations: swiftlink/src/inbound/association.rs                  *)
(***************************************************************************)
\* the most packets one send channel holds
MaxQueued == 2
\* the most associations that are created
MaxAssociations == 3

\* "Packet size for all UDP associations' send queue": 1024 in the source, the
\* bound here
UDP_ASSOCIATION_SEND_CHANNEL_SIZE == MaxQueued
\* "Keep-alive channel size for UDP associations' manager": 64 in the source
UDP_ASSOCIATION_KEEP_ALIVE_CHANNEL_SIZE == MaxQueued

\* an association, and with it its task, is the number it was created with
AssocIds == 1..MaxAssociations

\* the source addresses and the packets drawn
Sources == Peers
Packets == {"p", "q"}

\* Option<usize>: the capacity of the association map
NoCapacity == [some |-> FALSE, n |-> 0]
SomeCapacity(n) == [some |-> TRUE, n |-> n]

\* a sequence without its i-th element
Without(s, i) == SubSeq(s, 1, i - 1) \o SubSeq(s, i + 1, Len(s))

\* LruCache::remove_expired: the entries that stay, and the associations that
\* are dropped with the others
remove_expired(map) == SelectSeq(map, LAMBDA a : ~a.expired)
expired_ids(map) == {map[i].id : i \in {j \in 1..Len(map) : map[j].expired}}

\* a channel that makes room for a packet by dropping its oldest one
try_send_drop_oldest(queue, data) ==
    IF Len(queue) < UDP_ASSOCIATION_SEND_CHANNEL_SIZE
    THEN [ok |-> TRUE, queue |-> Append(queue, data)]
    ELSE [ok |-> TRUE, queue |-> Append(Tail(queue), data)]

\* UdpAssociation::try_send: mpsc::Sender::try_send on the bounded channel
try_send(queue, data) ==
    IF Len(queue) < UDP_ASSOCIATION_SEND_CHANNEL_SIZE
    THEN [ok |-> TRUE, queue |-> Append(queue, data)]
    ELSE [ok |-> FALSE, queue |-> queue]

NoSend == [src |-> "", data |-> "", ok |-> TRUE]

\* associations whose tasks go on when they are dropped
abort_never(running, ids) == running

\* Drop for UdpAssociation: assoc_handle.abort() for each association dropped
abort(running, ids) == running \ ids

\* what the task of an association owns, and the keepalive channel
taskState == <<keepalive_flag, ticks, received, keepalive_rx>>

\* the channels after the associations ids are dropped: a dropped association
\* aborts its task, which holds the receiver
Dropped(chs, ids) == [id \in DOMAIN chs |-> IF id \in ids THEN <<>> ELSE chs[id]]

\* UdpAssociationManager::send_to
SendTo(src, data) ==
    LET kept == remove_expired(assoc_map)
        gone == expired_ids(assoc_map)
        hit == {i \in 1..Len(kept) : kept[i].src = src}
    IN  /\ ~manager_dropped
        /\ UNCHANGED <<capacity, taskState, manager_dropped, notAssoc>>
        /\ IF hit # {}
           THEN LET i == CHOOSE j \in hit : TRUE
                    assoc == kept[i]
                    r == try_send(channels[assoc.id], data)
                IN  /\ assoc_map' = Append(Without(kept, i), assoc)
                    /\ channels' = [Dropped(channels, gone) EXCEPT
                                       ![assoc.id] = r.queue]
                    /\ live' = abort(live, gone)
                    /\ created' = created
                    /\ send_result' = [src |-> src, data |-> data, ok |-> r.ok]
           ELSE LET id == created + 1
                    r == try_send(<<>>, data)
                    full == capacity.some /\ Len(kept) >= capacity.n
                    evicted == IF r.ok /\ full THEN {kept[1].id} ELSE {}
                    rest == IF r.ok /\ full THEN Tail(kept) ELSE kept
                IN  /\ created < MaxAssociations
                    /\ created' = id
                    /\ send_result' = [src |-> src, data |-> data, ok |-> r.ok]
                    /\ assoc_map' =
                           IF r.ok
                           THEN Append(rest, [src |-> src, id |-> id,
                                              expired |-> FALSE])
                           ELSE kept
                    /\ live' = abort(live, gone \cup evicted)
                                   \cup (IF r.ok THEN {id} ELSE {})
                    /\ channels' = [Dropped(channels, gone \cup evicted) EXCEPT
                                       ![id] = IF r.ok THEN r.queue ELSE <<>>]

\* UdpAssociationManager::cleanup_expired
CleanupExpired ==
    /\ ~manager_dropped
    /\ assoc_map' = remove_expired(assoc_map)
    /\ live' = abort(live, expired_ids(assoc_map))
    /\ channels' = Dropped(channels, expired_ids(assoc_map))
    /\ send_result' = NoSend
    /\ UNCHANGED <<capacity, created, taskState, manager_dropped, notAssoc>>

\* UdpAssociationManager::keep_alive
KeepAlive(src) ==
    LET kept == remove_expired(assoc_map)
        hit == {i \in 1..Len(kept) : kept[i].src = src}
    IN  /\ ~manager_dropped
        /\ assoc_map' = IF hit = {} THEN kept
                        ELSE LET i == CHOOSE j \in hit : TRUE
                             IN  Append(Without(kept, i), kept[i])
        /\ live' = abort(live, expired_ids(assoc_map))
        /\ channels' = Dropped(channels, expired_ids(assoc_map))
        /\ send_result' = NoSend
        /\ UNCHANGED <<capacity, created, taskState, manager_dropped, notAssoc>>

\* time passes: the n least recently used associations have not been used for
\* the expiry duration
Elapse(n) ==
    /\ n \in 1..Len(assoc_map)
    /\ assoc_map' = [i \in 1..Len(assoc_map) |->
                        IF i <= n THEN [assoc_map[i] EXCEPT !.expired = TRUE]
                        ELSE assoc_map[i]]
    /\ assoc_map' # assoc_map
    /\ send_result' = NoSend
    /\ UNCHANGED <<capacity, channels, live, created, taskState, manager_dropped,
                   notAssoc>>

\* the manager is dropped, and with it the map and every association in it
ManagerDrop ==
    /\ ~manager_dropped
    /\ manager_dropped' = TRUE
    /\ assoc_map' = <<>>
    /\ live' = abort(live, {assoc_map[i].id : i \in 1..Len(assoc_map)})
    /\ channels' = Dropped(channels, {assoc_map[i].id : i \in 1..Len(assoc_map)})
    /\ send_result' = NoSend
    /\ UNCHANGED <<capacity, created, taskState, notAssoc>>

\* the source address an association's task was created with
src_addr(id) ==
    LET i == CHOOSE j \in 1..Len(assoc_map) : assoc_map[j].id = id
    IN  assoc_map[i].src

\* UdpAssociationContext::dispatch_packet: one turn of the loop of the task
\* of association id. The select! has one arm, the tick of the keepalive
\* interval; the receiver of the send channel is held and never polled.
DispatchPacket(id) ==
    /\ id \in live
    /\ ticks' = [ticks EXCEPT ![id] = TRUE]
    /\ IF keepalive_flag[id]
       THEN IF Len(keepalive_rx) < UDP_ASSOCIATION_KEEP_ALIVE_CHANNEL_SIZE
            THEN /\ keepalive_rx' = Append(keepalive_rx, src_addr(id))
                 /\ keepalive_flag' = [keepalive_flag EXCEPT ![id] = FALSE]
            ELSE UNCHANGED <<keepalive_rx, keepalive_flag>>
       ELSE UNCHANGED <<keepalive_rx, keepalive_flag>>
    /\ send_result' = NoSend
    /\ UNCHANGED <<capacity, assoc_map, channels, live, created, received,
                   manager_dropped, notAssoc>>

\* UdpAssociationManager::new
AssocInit ==
    /\ capacity \in {NoCapacity, SomeCapacity(1)}
    /\ assoc_map = <<>>
    /\ channels = [id \in 1..MaxAssociations |-> <<>>]
    /\ live = {}
    /\ created = 0
    /\ send_result = NoSend
    /\ keepalive_flag = [id \in AssocIds |-> FALSE]
    /\ ticks = [id \in AssocIds |-> FALSE]
    /\ received = [id \in AssocIds |-> <<>>]
    /\ keepalive_rx = <<>>
    /\ manager_dropped = FALSE

\* a manager that is never used
AssocIdle ==
    /\ capacity = NoCapacity
    /\ assoc_map = <<>>
    /\ channels = [id \in 1..MaxAssociations |-> <<>>]
    /\ live = {}
    /\ created = 0
    /\ send_result = NoSend
    /\ keepalive_flag = [id \in AssocIds |-> FALSE]
    /\ ticks = [id \in AssocIds |-> FALSE]
    /\ received = [id \in AssocIds |-> <<>>]
    /\ keepalive_rx = <<>>
    /\ manager_dropped = FALSE

AssocNext ==
    \/ \E src \in Sources, data \in Packets : SendTo(src, data)
    \/ CleanupExpired
    \/ \E src \in Sources : KeepAlive(src)
    \/ \E n \in 1..MaxAssociations : Elapse(n)
    \/ ManagerDrop
    \/ \E id \in AssocIds : DispatchPacket(id)

(***************************************************************************)
(* The bootstrap resolver singleton: mod bootstrap of                      *)
(* swiftlink-dns/src/client.rs                                             *)
(***************************************************************************)
\* the most resolvers that are made, by from_system_conf or by a builder
MaxResolvers == 3

\* the tasks that call bootstrap::resolver()
Tasks == {"t1", "t2"}

\* Option<Arc<BootstrapResolver>>::None; a resolver is the number it was made
\* with
NoResolver == 0

Idle == [pc |-> "idle", got |-> NoResolver]

\* bootstrap::resolver, up to drop(lock): the task reads the slot under the
\* read lock, returns the resolver it holds or goes on to make one
ResolverRead(t) ==
    /\ callers[t].pc = "idle"
    /\ callers' = [callers EXCEPT ![t] =
                      IF RESOLVER = NoResolver
                      THEN [pc |-> "init", got |-> NoResolver]
                      ELSE [pc |-> "done", got |-> RESOLVER]]
    /\ UNCHANGED <<RESOLVER, made, writes, notBoot>>

\* bootstrap::resolver, after drop(lock): the task makes a resolver from the
\* system configuration, writes it to the slot through set_resolver and
\* returns it
ResolverInit(t) ==
    /\ callers[t].pc = "init"
    /\ made < MaxResolvers
    /\ made' = made + 1
    /\ RESOLVER' = made + 1
    /\ writes' = Append(writes, [by |-> "resolver", value |-> made + 1])
    /\ callers' = [callers EXCEPT ![t] = [pc |-> "done", got |-> made + 1]]
    /\ UNCHANGED notBoot

\* the caller takes the resolver it was returned; it may call again
ResolverReturn(t) ==
    /\ callers[t].pc = "done"
    /\ callers' = [callers EXCEPT ![t] = Idle]
    /\ UNCHANGED <<RESOLVER, made, writes, notBoot>>

\* bootstrap::set_resolver, called by DnsClientBuilder::build with the
\* resolver it made
SetResolver ==
    /\ made < MaxResolvers
    /\ made' = made + 1
    /\ RESOLVER' = made + 1
    /\ writes' = Append(writes, [by |-> "set_resolver", value |-> made + 1])
    /\ UNCHANGED <<callers, notBoot>>

\* static RESOLVER: RwLock::const_new(None)
BootInit ==
    /\ RESOLVER = NoResolver
    /\ callers = [t \in Tasks |-> Idle]
    /\ made = 0
    /\ writes = <<>>

\* a process that never asks for the bootstrap resolver
BootIdle == BootInit

BootNext ==
    \/ \E t \in Tasks : ResolverRead(t)
    \/ \E t \in Tasks : ResolverInit(t)
    \/ \E t \in Tasks : ResolverReturn(t)
    \/ SetResolver

(***************************************************************************)
(* NameServerFactory::create in swiftlink-dns/src/client.rs                *)
(***************************************************************************)
\* the most name servers that are built
MaxNameServers == 3

\* the upstream URLs and the proxies create is called with
DnsUrls == {"https://1.1.1.1/dns-query"}
FactoryProxies == {NoProxy, ProxyConfig("Socks5", [ip |-> "10.1.1.1", port |-> 1080], FALSE)}

\* format!("{}{:?}", url.to_string(), proxy.as_ref().map(|s| s.to_string()))
CacheKey(url, proxy) ==
    [url |-> url, some |-> proxy.some, proto |-> proxy.proto,
     username |-> proxy.username, server |-> proxy.server]
CacheKeys == {CacheKey(u, p) : u \in DnsUrls, p \in FactoryProxies}

\* HashMap::get on the cache: the name servers under the key, none or one
CacheGet(c, key) == {x.ns : x \in {y \in c : y.key = key}}
\* HashMap::insert: the entry of the key is replaced
CacheInsert(c, key, ns) == {y \in c : y.key # key} \cup {[key |-> key, ns |-> ns]}

NotCreating == [pc |-> "idle", key |-> CacheKey("", NoProxy), got |-> {}]

\* NameServerFactory::create, up to the return of the cached name server: the
\* read lock is taken for the lookup alone
CreateRead(t, key) ==
    /\ creators[t].pc = "idle"
    /\ creators' = [creators EXCEPT ![t] =
                       IF CacheGet(cache, key) # {}
                       THEN [pc |-> "done", key |-> key,
                             got |-> CacheGet(cache, key)]
                       ELSE [pc |-> "build", key |-> key, got |-> {}]]
    /\ UNCHANGED <<cache, built, inserts, notFactory>>

\* NameServerFactory::create, after a miss: the name server is built, inserted
\* under the write lock and returned
CreateInsert(t) ==
    /\ creators[t].pc = "build"
    /\ built < MaxNameServers
    /\ built' = built + 1
    /\ cache' = CacheInsert(cache, creators[t].key, built + 1)
    /\ inserts' = Append(inserts, [key |-> creators[t].key, ns |-> built + 1])
    /\ creators' = [creators EXCEPT ![t] =
                       [pc |-> "done", key |-> creators[t].key,
                        got |-> {built + 1}]]
    /\ UNCHANGED notFactory

\* the caller takes the name server it was returned; it may call again
CreateReturn(t) ==
    /\ creators[t].pc = "done"
    /\ creators' = [creators EXCEPT ![t] = NotCreating]
    /\ UNCHANGED <<cache, built, inserts, notFactory>>

\* NameServerFactory::new
FactoryInit ==
    /\ cache = {}
    /\ creators = [t \in Tasks |-> NotCreating]
    /\ built = 0
    /\ inserts = <<>>

\* a factory that is never used
FactoryIdle == FactoryInit

FactoryNext ==
    \/ \E t \in Tasks, key \in CacheKeys : CreateRead(t, key)
    \/ \E t \in Tasks : CreateInsert(t)
    \/ \E t \in Tasks : CreateReturn(t)

(***************************************************************************)
(* The handler chain, one call at a time:                                  *)
(* swiftlink-dns/src/dns_handle/mod.rs, forward.rs, fakedns.rs             *)
(***************************************************************************)
\* the most handlers of one chain
MaxHandlers == 2

\* the chains DnsRequestHandlerBuilder::with builds of the two handlers
HandleStacks ==
    UNION {[1..n -> {"FakeDnsHandle", "ForwardHandle"}] : n \in 0..MaxHandlers}

\* the queries drawn
Queries == {[name |-> HostName(h), query_type |-> t] :
                h \in {"a", "b"}, t \in RecordTypes}
NoQuery == [name |-> HostName(""), query_type |-> ""]

\* a result and the handler that made it; 0 is DnsRequestHandleNext::run
\* itself, whose error is trusted
Made(by, res) == [by |-> by, res |-> res, trusted |-> by = 0]
NoResult == Made(-1, Ok(<<>>))

\* a chain that hands the request to its last handler first
split_first_from_end(handles) ==
    IF handles = <<>> THEN [some |-> FALSE, current |-> 0, rest |-> <<>>]
    ELSE [some |-> TRUE, current |-> handles[Len(handles)],
          rest |-> SubSeq(handles, 1, Len(handles) - 1)]

\* DnsRequestHandleNext::run: self.handles.split_first(); handles are the
\* places of the handlers in the handle_stack
split_first(handles) ==
    IF handles = <<>> THEN [some |-> FALSE, current |-> 0, rest |-> <<>>]
    ELSE [some |-> TRUE, current |-> Head(handles), rest |-> Tail(handles)]

\* a bootstrap resolver that knows no name
lookup_nameserver_none(ip_records, q) == FALSE

\* DnsClient::lookup_nameserver, BootstrapResolver::local_lookup: whether the
\* ip_store of the bootstrap resolver holds records for the query
lookup_nameserver(ip_records, q) == q \in ip_records

\* the calls of handle after the innermost one has returned: its caller is
\* resumed at its next.run(ctx, req).await
Returned(fs) ==
    IF Len(fs) <= 1 THEN <<>>
    ELSE [SubSeq(fs, 1, Len(fs) - 1) EXCEPT ![Len(fs) - 1].at = "resumed"]

\* DnsRequestHandleNext::run on handles, called by the handler of the
\* innermost call of fs (or by execute) after the events evs: the first
\* handler is called with the rest, and an empty chain answers with the
\* error made here
RunNext(fs, handles, evs) ==
    LET sf == split_first(handles)
    IN  IF sf.some
        THEN /\ frames' = Append(fs, [i |-> sf.current, rest |-> sf.rest,
                                      at |-> "handle"])
             /\ events' = Append(evs, [op |-> "start", i |-> sf.current])
             /\ chain_result' = chain_result
        ELSE /\ frames' = IF fs = <<>> THEN <<>>
                          ELSE [fs EXCEPT ![Len(fs)].at = "resumed"]
             /\ events' = evs
             /\ chain_result' = Made(0, NoRecordsFound)

\* DnsRequestHandler::search: a new DnsContext, and execute
ChainSearch(q) ==
    /\ chain_query = NoQuery
    /\ chain_query' = q
    /\ no_cache' = FALSE
    /\ lookups' = <<>>
    /\ RunNext(<<>>, [i \in 1..Len(handlers) |-> i], events)
    /\ UNCHANGED <<handlers, local_store, notChain>>

\* the innermost call of handle
Top == frames[Len(frames)]

\* a handler returns res without calling next.run
Answer(res) ==
    /\ frames' = Returned(frames)
    /\ events' = Append(events, [op |-> "return", i |-> Top.i])
    /\ chain_result' = Made(Top.i, res)

\* a handler calls next.run(ctx, req)
Delegate ==
    RunNext([frames EXCEPT ![Len(frames)].at = "await"], Top.rest,
            Append(events, [op |-> "run", i |-> Top.i]))

\* FakeDnsHandle::handle up to its return or its next.run; fakeip tells
\* whether lookup_ip returned an address
FakeDnsHandleStep(fakeip) ==
    /\ frames # <<>> /\ Top.at = "handle"
    /\ handlers[Top.i] = "FakeDnsHandle"
    /\ fakeip => chain_query.query_type \in {"A", "AAAA"}
    /\ IF fakeip
       THEN Answer(Ok(<<[name |-> chain_query.name,
                         rtype |-> chain_query.query_type,
                         ttl |-> 1, ip |-> NoIp]>>))
       ELSE IF chain_query.query_type \in {"SVCB", "HTTPS"}
       THEN Answer(Err("NXDomain", FALSE))
       ELSE Delegate
    /\ UNCHANGED <<handlers, local_store, chain_query, no_cache, lookups,
                   notChain>>

\* ForwardHandle::handle: the local store of the bootstrap resolver first,
\* the upstream client otherwise; up is what the client answers
ForwardHandleStep(up) ==
    /\ frames # <<>> /\ Top.at = "handle"
    /\ handlers[Top.i] = "ForwardHandle"
    /\ IF lookup_nameserver(local_store, chain_query)
       THEN /\ up = Err("Timeout", FALSE)
            /\ no_cache' = TRUE
            /\ lookups' = lookups
            /\ Answer(Ok(<<[name |-> chain_query.name,
                            rtype |-> chain_query.query_type,
                            ttl |-> 60, ip |-> NoIp]>>))
       ELSE /\ no_cache' = no_cache
            /\ lookups' = Append(lookups,
                                 [name |-> chain_query.name,
                                  record_type |-> chain_query.query_type,
                                  client_subnet |-> "None"])
            /\ Answer(up)
    /\ UNCHANGED <<handlers, local_store, chain_query, notChain>>

\* a handler whose next.run(ctx, req).await has completed returns what it
\* got
ResumedReturn ==
    /\ frames # <<>> /\ Top.at = "resumed"
    /\ frames' = Returned(frames)
    /\ events' = Append(events, [op |-> "return", i |-> Top.i])
    /\ UNCHANGED <<handlers, local_store, chain_query, no_cache, lookups,
                   chain_result, notChain>>

\* DnsRequestHandlerBuilder::build, and a bootstrap resolver that has
\* resolved nothing or the address of one name server
ChainInit ==
    /\ handlers \in HandleStacks
    /\ local_store \in {{}, {[name |-> HostName("a"), query_type |-> "A"]}}
    /\ chain_query = NoQuery
    /\ no_cache = FALSE
    /\ frames = <<>>
    /\ events = <<>>
    /\ lookups = <<>>
    /\ chain_result = NoResult

\* a chain that is never searched
ChainIdle ==
    /\ handlers = <<>>
    /\ local_store = {}
    /\ chain_query = NoQuery
    /\ no_cache = FALSE
    /\ frames = <<>>
    /\ events = <<>>
    /\ lookups = <<>>
    /\ chain_result = NoResult

ChainNext ==
    \/ \E q \in Queries : ChainSearch(q)
    \/ \E fakeip \in BOOLEAN : FakeDnsHandleStep(fakeip)
    \/ \E up \in UpstreamResults(chain_query) : ForwardHandleStep(up)
    \/ ResumedReturn

(***************************************************************************)
(* The accept loop: serve_tcp in swiftlink/src/inbound/socks/tcp.rs and    *)
(* ServerHandle in swiftlink/src/inbound/mod.rs                            *)
(***************************************************************************)
\* the most connections that are made to the listener
MaxConnections == 3

\* the task of serve_tcp: in the select! of its loop, or returned
Serving == [pc |-> "select", result |-> "none"]
Returned_Ok == [pc |-> "returned", result |-> "Ok"]

\* a loop that a failed accept ends
accept_failed_break(s) == Returned_Ok

\* serve_tcp, Err(e) of listener.accept(): debug! and continue
accept_failed(s) == s

\* a client connects to the listener
Connect(src) ==
    /\ Len(backlog) + Len(spawned) < MaxConnections
    /\ backlog' = Append(backlog, src)
    /\ UNCHANGED <<shutdown, serve, spawned, last_accept, notServe>>

\* serve_tcp, one turn of the loop in which select! takes the accept: the
\* first waiting connection is accepted and its handler spawned, or the
\* accept fails. The select! is not biased: the accept may be taken while
\* the token is cancelled.
ServeAccept(ok) ==
    /\ serve.pc = "select"
    /\ IF ok
       THEN /\ backlog # <<>>
            /\ backlog' = Tail(backlog)
            /\ spawned' = Append(spawned, Head(backlog))
            /\ last_accept' = "ok"
            /\ serve' = serve
       ELSE /\ last_accept' = "err"
            /\ serve' = accept_failed(serve)
            /\ UNCHANGED <<backlog, spawned>>
    /\ UNCHANGED <<shutdown, notServe>>

\* serve_tcp, the turn of the loop in which select! takes
\* shutdown.cancelled(): break, and Ok(())
ServeCancelled ==
    /\ serve.pc = "select"
    /\ shutdown
    /\ serve' = Returned_Ok
    /\ UNCHANGED <<shutdown, backlog, spawned, last_accept, notServe>>

\* ServerHandle::shutdown_gracefully: self.1.cancel()
ShutdownGracefully ==
    /\ ~shutdown
    /\ shutdown' = TRUE
    /\ UNCHANGED <<serve, backlog, spawned, last_accept, notServe>>

\* Socks::serve: a new token, and serve_tcp spawned on the listener
ServeInit ==
    /\ shutdown = FALSE
    /\ serve = Serving
    /\ backlog = <<>>
    /\ spawned = <<>>
    /\ last_accept = "none"

\* a listener nobody connects to
ServeIdle == ServeInit

ServeNext ==
    \/ \E src \in Peers : Connect(src)
    \/ \E ok \in BOOLEAN : ServeAccept(ok)
    \/ ServeCancelled
    \/ ShutdownGracefully

(***************************************************************************)
(* Specifications                                                          *)
(***************************************************************************)
\* the fake-IP allocator under every call sequence
FakeDnsSpecInit ==
    FakeDnsInit /\ SocksIdle /\ DnsIdle /\ TrieIdle /\ ServerIdle /\ NsIdle
    /\ AssocIdle /\ BootIdle
    /\ FactoryIdle
    /\ ChainIdle
    /\ ServeIdle
FakeDnsSpec == FakeDnsSpecInit /\ [][FakeDnsNext]_vars

\* one connection of the SOCKS ingress under every client
SocksSpecInit ==
    SocksInit /\ FakeDnsIdle /\ DnsIdle /\ TrieIdle /\ ServerIdle /\ NsIdle
    /\ AssocIdle /\ BootIdle
    /\ FactoryIdle
    /\ ChainIdle
    /\ ServeIdle
SocksSpec == SocksSpecInit /\ [][SocksNext]_vars

\* the upstream side of the resolver: one proxied connect and one group lookup
DnsSpecInit ==
    DnsInit /\ FakeDnsIdle /\ SocksIdle /\ TrieIdle /\ ServerIdle /\ NsIdle
    /\ AssocIdle /\ BootIdle
    /\ FactoryIdle
    /\ ChainIdle
    /\ ServeIdle
DnsSpec == DnsSpecInit /\ [][DnsNext]_vars

\* a domain trie under every sequence of inserts and searches
TrieSpecInit ==
    TrieInit /\ FakeDnsIdle /\ SocksIdle /\ DnsIdle /\ ServerIdle /\ NsIdle
    /\ AssocIdle /\ BootIdle
    /\ FactoryIdle
    /\ ChainIdle
    /\ ServeIdle
TrieSpec == TrieSpecInit /\ [][TrieNext]_vars

\* the DNS front end with its handler chain and the fake-IP allocator behind it
ServerSpecInit ==
    ServerInit /\ SocksIdle /\ DnsIdle /\ TrieIdle /\ NsIdle
    /\ AssocIdle /\ BootIdle
    /\ FactoryIdle
    /\ ChainIdle
    /\ ServeIdle
ServerSpec == ServerSpecInit /\ [][ServerNext]_vars

\* the Lookup a name server builds of every upstream response
NsSpecInit ==
    NsInit /\ FakeDnsIdle /\ SocksIdle /\ DnsIdle /\ TrieIdle /\ ServerIdle
    /\ AssocIdle /\ BootIdle
    /\ FactoryIdle
    /\ ChainIdle
    /\ ServeIdle
NsSpec == NsSpecInit /\ [][NsNext]_vars

\* the UDP association manager under every sequence of packets and expiries
AssocSpecInit ==
    AssocInit /\ FakeDnsIdle /\ SocksIdle /\ DnsIdle /\ TrieIdle /\ ServerIdle
    /\ NsIdle /\ BootIdle
    /\ FactoryIdle
    /\ ChainIdle
    /\ ServeIdle
AssocSpec == AssocSpecInit /\ [][AssocNext]_vars

\* the same with the runtime's scheduling: a spawned task whose interval
\* ticks is polled
AssocFairSpecInit == AssocSpecInit
AssocFairSpec ==
    /\ AssocFairSpecInit
    /\ [][AssocNext]_vars
    /\ WF_vars(\E id \in AssocIds : DispatchPacket(id))

\* the bootstrap singleton under concurrent calls of resolver and set_resolver
BootSpecInit ==
    BootInit /\ FakeDnsIdle /\ SocksIdle /\ DnsIdle /\ TrieIdle /\ ServerIdle
    /\ NsIdle /\ AssocIdle
    /\ FactoryIdle
    /\ ChainIdle
    /\ ServeIdle
BootSpec == BootSpecInit /\ [][BootNext]_vars

\* the name server factory under concurrent calls of create
FactorySpecInit ==
    FactoryInit /\ FakeDnsIdle /\ SocksIdle /\ DnsIdle /\ TrieIdle
    /\ ServerIdle /\ NsIdle /\ AssocIdle /\ BootIdle
    /\ ChainIdle
    /\ ServeIdle
FactorySpec == FactorySpecInit /\ [][FactoryNext]_vars

\* the handler chain, one call of handle at a time
ChainSpecInit ==
    ChainInit /\ FakeDnsIdle /\ SocksIdle /\ DnsIdle /\ TrieIdle
    /\ ServerIdle /\ NsIdle /\ AssocIdle /\ BootIdle /\ FactoryIdle
    /\ ServeIdle
ChainSpec == ChainSpecInit /\ [][ChainNext]_vars

\* the accept loop with the runtime's scheduling: the task of serve_tcp is
\* woken by the cancellation, and a select! that finds the token cancelled
\* turn after turn takes that branch in the end
ServeFairSpecInit ==
    ServeInit /\ FakeDnsIdle /\ SocksIdle /\ DnsIdle /\ TrieIdle
    /\ ServerIdle /\ NsIdle /\ AssocIdle /\ BootIdle /\ FactoryIdle
    /\ ChainIdle
ServeFairSpec ==
    /\ ServeFairSpecInit
    /\ [][ServeNext]_vars
    /\ WF_vars(ServeCancelled)

(***************************************************************************)
(* Properties of the fake-IP allocator                                     *)
(***************************************************************************)
\* the address a host maps to in one family, as lookup_ip finds it
Forward(s, host, ipv6) == ParseIp(get_fakeip_value(s, AsBytes(host), ipv6))
\* the hosts looked up so far
Asked == {used[i] : i \in 1..Len(used)}
\* the lookups so far stayed within capacity
WithinCapacity ==
    /\ Cardinality(Asked) <= total
    /\ store.kind = "Memory" => Cardinality(Asked) <= store.size
\* every slot of the range is taken
AllTaken(s) == \A k \in 0..(total - 1) : SlotTaken(s, k)

\* C1: within capacity and with no failed store write, right after
\* lookup_ip(host, want_v6) returned ip, lookup_host(ip) is host and
\* is_fake_ip(ip) is true, in both families and for both stores.
C1_RoundTrip ==
    (last.op = "lookup_ip" /\ last.ip # NoIp /\ WithinCapacity /\ faults = 0)
        => (lookup_host(store, last.ip) = last.host /\ is_fake_ip(last.ip))

\* C2: no two distinct hosts have a forward mapping to the same fake IPv4
\* address or to the same fake IPv6 address (no store write having failed).
C2_CollisionFree ==
    faults = 0 =>
        \A h1 \in Hosts, h2 \in Hosts, ipv6 \in BOOLEAN :
            (h1 # h2 /\ Forward(store, h1, ipv6) # NoIp)
                => Forward(store, h1, ipv6) # Forward(store, h2, ipv6)

\* C3: when every slot is taken, lookup_ip of an unmapped host takes over the
\* slot at (offset + 1) mod total: the new host maps to its pair in both
\* directions, and the hosts that held the pair keep neither a forward nor a
\* reverse entry for it.
C3_ForcedTakeover ==
    [][(last'.op = "lookup_ip" /\ ~last'.hit /\ AllTaken(store) /\ faults' = 0)
        => LET slot == (offset + 1) % total
               ip4 == gen_next_ipv4(ipnet, slot)
               ip6 == gen_next_ipv6(ipnet6, slot)
               host == last'.host
           IN  /\ offset' = slot
               /\ Forward(store', host, FALSE) = ip4
               /\ Forward(store', host, TRUE) = ip6
               /\ lookup_host(store', ip4) = host
               /\ lookup_host(store', ip6) = host
               /\ \A old \in Hosts \ {host} :
                      /\ Forward(store', old, FALSE) # ip4
                      /\ Forward(store', old, TRUE) # ip6]_vars

\* C4: a host has an IPv4 forward mapping iff it has an IPv6 forward mapping,
\* the two addresses have the same offset from their network address and
\* resolve back to the same host, also when a store write fails.
C4_PairAtomic ==
    \A h \in Hosts :
        LET ip4 == Forward(store, h, FALSE)
            ip6 == Forward(store, h, TRUE)
        IN  /\ ip4 # NoIp <=> ip6 # NoIp
            /\ ip4 # NoIp =>
                 /\ ip4.n - ipnet.network = ip6.n - ipnet6.network
                 /\ lookup_host(store, ip4) = lookup_host(store, ip6)

\* C5: every address lookup_ip returns lies inside the configured range of
\* its family, and the first host of a fresh allocator receives network + 2
\* (no store write having failed).
C5_InRange ==
    (last.op = "lookup_ip" /\ last.ip # NoIp /\ faults = 0) =>
        /\ is_fake_ip(last.ip)
        /\ Cardinality(Asked) = 1 =>
             last.ip.n = (IF last.ip.v6 THEN ipnet6.network ELSE ipnet.network) + 2

\* C6: no IPv4 address lookup_ip returns is the network address or the
\* broadcast (last) address of the IPv4 range (no store write having failed).
C6_NotReserved ==
    (last.op = "lookup_ip" /\ last.ip # NoIp /\ ~last.ip.v6 /\ faults = 0) =>
        (last.ip.n # ipnet.network /\ last.ip.n # Broadcast(ipnet))

\* C7: in the memory store, when a put makes the LRU evict a host other than
\* the inserted one, both maps drop the evicted host, and the hosts that hold
\* a mapping never number more than `size`.
C7_EvictedDropped ==
    store.kind = "Memory" =>
        /\ (last.op = "lookup_ip" /\ last.evicted # NoHost) =>
               /\ last.evicted \notin DOMAIN store.host2ip4
               /\ last.evicted \notin DOMAIN store.host2ip6
        /\ Cardinality(DOMAIN store.host2ip4 \cup DOMAIN store.host2ip6)
               <= store.size

\* the host of the LRU q that the history u holds last: the one whose last put
\* or successful get is the oldest
OldestUsed(q, u) ==
    LET at(h) == CHOOSE i \in 1..Len(u) : u[i] = h
    IN  CHOOSE h \in {q[i] : i \in 1..Len(q)} :
            \A i \in 1..Len(q) : at(q[i]) <= at(h)

WrittenCodes(kind) ==
    {client.written[i].code :
        i \in {j \in 1..Len(client.written) : client.written[j].kind = kind}}
\* the methods the client offered
Offered == {client.methods[i] : i \in 1..Len(client.methods)}

\* C9: with a credential store configured, an InboundConnection is emitted
\* only after the credentials the client sent verified against it: for SOCKS5
\* after the server chose PASSWORD and answered the sub-negotiation with status
\* 0, for SOCKS4 a USERID that verifies with an empty password.  A SOCKS5
\* client that offers only NONE is answered nothing but NOT_ACCEPTABLE, its
\* handler ends with an error and reads no request.
C9_EmitOnlyVerified ==
    authenticator.some =>
        /\ tcp_in # <<>> =>
             /\ client.cred.read
             /\ verify(authenticator, client.cred.uname, client.cred.passwd)
             /\ client.version = 4 => client.cred.passwd = ""
             /\ client.version = 5 =>
                  (WrittenCodes("method") = {"PASSWORD"} /\ WrittenCodes("status") = {0})
        /\ (client.version = 5 /\ client.pc = "request") =>
             (client.cred.read
              /\ verify(authenticator, client.cred.uname, client.cred.passwd))
        /\ (client.version = 5 /\ Offered = {"NONE"}
              /\ client.pc \notin {"socks5", "check_auth"}) =>
             /\ client.pc = "done" /\ client.result = "err"
             /\ WrittenCodes("method") \subseteq {"NOT_ACCEPTABLE"}
             /\ Len(client.written) <= 1
             /\ ~client.cred.read
             /\ tcp_in = <<>>

\* C9 witness: a SOCKS5 connection was emitted while a credential store is
\* configured.
C9_Witness ==
    /\ authenticator.some
    /\ Len(tcp_in) = 1 /\ tcp_in[1].inbound_tag = "SOCKS5"
    /\ client.pc = "done"

\* the method the selection rule of the specification replies with
SelectedBySet(offered, configured) ==
    IF configured /\ "PASSWORD" \in offered THEN "PASSWORD"
    ELSE IF "NONE" \in offered /\ ~configured THEN "NONE"
    ELSE "NOT_ACCEPTABLE"

\* C10: the method replied depends only on the set of offered methods and on
\* whether a credential store is configured: PASSWORD iff one is configured
\* and PASSWORD is offered, otherwise NONE iff NONE is offered and none is
\* configured, otherwise NOT_ACCEPTABLE and the handler ends.
C10_MethodBySet ==
    (client.version = 5 /\ WrittenCodes("method") # {}) =>
        /\ WrittenCodes("method") = {SelectedBySet(Offered, authenticator.some)}
        /\ SelectedBySet(Offered, authenticator.some) = "NOT_ACCEPTABLE"
             => client.pc = "done"

\* the replies of one kind the handler wrote, in their order
WrittenSeq(kind) ==
    LET of_kind(r) == r.kind = kind
        w == SelectSeq(client.written, of_kind)
    IN  [i \in 1..Len(w) |-> w[i].code]

\* C11: every username/password sub-negotiation the server started (it
\* replied PASSWORD) and left again has at most one status on the wire; the
\* status is 0 exactly when the credentials read verify against the
\* credential store and 0xFF when they do not; and the handler is at the read
\* of the SOCKS5 request only with exactly one status written, which is 0.
C11_OneStatus ==
    (client.version = 5 /\ "PASSWORD" \in WrittenCodes("method")
       /\ client.pc \in {"request", "done"}) =>
        LET st == WrittenSeq("status")
            verified == /\ authenticator.some
                        /\ client.cred.read
                        /\ verify(authenticator, client.cred.uname,
                                  client.cred.passwd)
        IN  /\ Len(st) <= 1
            /\ Len(st) = 1 =>
                  /\ st[1] = 0 <=> verified
                  /\ (client.cred.read /\ ~verified) =>
                       st[1] = PASSWORD_AUTH_STATUS_FAILURE
            /\ (client.pc = "request" \/ client.request # NoRequest) =>
                  st = <<0>>

\* C12: once the dispatcher was handed the connection of a SOCKS5 CONNECT
\* that followed a successful authentication, a reply with code SUCCEEDED is
\* on the wire to the client.
C12_ConnectSucceeded ==
    (/\ dispatcher # "idle"
     /\ tcp_in[1].inbound_tag = "SOCKS5"
     /\ WrittenSeq("status") = <<0>>) =>
        "Succeeded" \in WrittenCodes("reply")

\* C13: a SOCKS5 request with CMD=UDP_ASSOCIATE is answered with a reply (the
\* address of the relay socket) and the client handler does not abort.
C13_UdpAssociateServed ==
    (client.pc = "done" /\ client.request.command = "UdpAssociate") =>
        /\ client.result # "panic"
        /\ WrittenCodes("reply") # {}

\* C14: a connection emits at most one InboundConnection, only when its
\* handler ended Ok on a CONNECT whose negotiation got a positive answer; the
\* metadata carries the tag of the negotiated version, the peer's socket
\* address as source and the destination of the request as target; a SOCKS4
\* emission has RequestGranted on the wire.
C14_EmitOnceForConnect ==
    /\ Len(tcp_in) <= 1
    /\ tcp_in # <<>> =>
         /\ client.pc = "done" /\ client.result = "ok"
         /\ tcp_in[1].source = SocketAddress(client.peer_addr)
         /\ tcp_in[1].target = client.request.addr
         /\ client.version = 4 =>
              /\ client.request.command = "Connect"
              /\ tcp_in[1].inbound_tag = "SOCKS4"
              /\ WrittenSeq("socks4") = <<"RequestGranted">>
         /\ client.version = 5 =>
              /\ client.request.command = "TcpConnect"
              /\ tcp_in[1].inbound_tag = "SOCKS5"
              /\ WrittenCodes("method") \in {{"NONE"}, {"PASSWORD"}}
         /\ client.version \in {4, 5}

\* C14 witness: a SOCKS4 CONNECT to a domain name was emitted.
C14_Witness ==
    /\ Len(tcp_in) = 1
    /\ tcp_in[1].inbound_tag = "SOCKS4"
    /\ tcp_in[1].target.kind = "DomainNameAddress"
    /\ tcp_in[1].source = SocketAddress("10.0.0.2:1002")

C16_DialsProxy ==
    (tcp.result # "none" /\ tcp.proxy.some) =>
        /\ \A i \in 1..Len(tcp.dialed) : tcp.dialed[i] = tcp.proxy.server
        /\ \A i \in 1..Len(tcp.requests) :
             /\ tcp.requests[i].command = "CONNECT"
             /\ tcp.requests[i].target =
                  [addr |-> tcp.server_addr.ip, port |-> tcp.server_addr.port]

\* an Ok with a non-empty record set
NonEmptyOk(res) == res.ok /\ res.records # {}

\* C17: when the lookup of a group has returned and the lookup of at least
\* one member had an Ok with a non-empty record set as its result, the result
\* of the group is an Ok with a non-empty record set, whatever the results of
\* the other members and whatever the order of the completions.
C17_AnyAnswerWins ==
    (lookup.pc = "done" /\ \E ns \in 1..servers : NonEmptyOk(ready[ns])) =>
        NonEmptyOk(lookup.res)

\* C17 witness: the group answered after an error and an empty answer of
\* other members.
C17_Witness ==
    /\ lookup.pc = "done" /\ NonEmptyOk(lookup.res)
    /\ Len(completed) = 3
    /\ ~completed[1].res.ok
    /\ completed[2].res.ok /\ completed[2].res.records = {}

C19_EmptyGroupErr ==
    (servers = 0 /\ lookup.pc # "idle") =>
        (lookup.pc = "done" /\ ~lookup.res.ok)

(***************************************************************************)
(* Properties of the domain trie                                           *)
(***************************************************************************)
\* the entries of the trie by the inserts made: `+.suffix` stands for the
\* two entries `suffix` and `.suffix`; a later insert of a pattern replaces
\* the data of an earlier one
EntriesOf(ins) ==
    IF ins.parts[1] = "+"
    THEN {[parts |-> Tail(ins.parts), data |-> ins.data],
          [parts |-> <<"">> \o Tail(ins.parts), data |-> ins.data]}
    ELSE {[parts |-> ins.parts, data |-> ins.data]}
Entries ==
    LET all == UNION {EntriesOf(inserted[i]) : i \in 1..Len(inserted)}
    IN  {e \in all : \A f \in all : f.parts = e.parts => f.data <= e.data}

\* the pattern matches the domain: from the TLD inward each label is the
\* domain's own or `*`, and a leading empty label stands for one or more
\* labels
PatternMatches(pat, dom) ==
    LET rp == Reverse(pat)
        rd == Reverse(dom)
        n == Len(rp)
    IN  IF rp[n] = ""
        THEN /\ Len(rd) >= n
             /\ \A i \in 1..(n - 1) : rp[i] \in {rd[i], "*"}
        ELSE /\ Len(rd) = n
             /\ \A i \in 1..n : rp[i] \in {rd[i], "*"}
Matching(dom) == {e \in Entries : e.parts # <<>> /\ PatternMatches(e.parts, dom)}

\* the rank of the label of a pattern at position i from the TLD: exact
\* before `*` before the empty label
Rank(pat, i) ==
    LET l == Reverse(pat)[i]
    IN  IF l = "" THEN 2 ELSE IF l = "*" THEN 1 ELSE 0
\* pattern p precedes pattern q: at the first label from the TLD where they
\* differ, p has the smaller rank
Precedes(p, q) ==
    \E i \in 1..Len(p) :
        /\ i <= Len(q)
        /\ Rank(p, i) < Rank(q, i)
        /\ \A j \in 1..(i - 1) : Rank(p, j) = Rank(q, j)

\* the classes of entries
IsSuffixEntry(pat) == pat[1] = ""
IsStarEntry(pat) == ~IsSuffixEntry(pat) /\ \E i \in 1..Len(pat) : pat[i] = "*"
IsExactEntry(pat) == ~IsSuffixEntry(pat) /\ ~IsStarEntry(pat)
WellFormed(dom) == \A i \in 1..Len(dom) : dom[i] # ""

\* C20, as amended: the search of a domain returns the data of the matching
\* entry that precedes every other matching entry, where precedence is
\* decided at the first label from the TLD at which two patterns differ:
\* exact before `*` before the empty (multi-label) label; and None when no
\* entry matches.
C20_PrecedenceByLabel ==
    (found # NoSearch /\ WellFormed(found.domain)) =>
        LET m == Matching(found.domain)
        IN  IF m = {} THEN found.data = None
            ELSE \E e \in m :
                    /\ found.data = e.data
                    /\ \A f \in m : f.parts # e.parts => Precedes(e.parts, f.parts)

\* C20 witness: a `*` entry and a suffix entry both match the domain and the
\* data of the suffix entry is returned; it has an exact label nearer the TLD.
C20_Witness ==
    /\ found # NoSearch /\ found.data # None
    /\ Len(found.domain) = 3
    /\ \E e \in Matching(found.domain) :
          IsSuffixEntry(e.parts) /\ found.data = e.data
    /\ \E e \in Matching(found.domain) :
          IsStarEntry(e.parts) /\ found.data # e.data

\* C20: the search returns by precedence, and so by class: when an exact
\* entry matches the domain its data is returned, and when no exact entry but
\* a `*` entry matches, the data of a `*` entry is returned, never that of
\* a `.suffix` or `+.suffix` entry.
C20_PrecedenceByClass ==
    (found # NoSearch /\ WellFormed(found.domain)) =>
        LET m == Matching(found.domain)
            exact == {e \in m : IsExactEntry(e.parts)}
            star == {e \in m : IsStarEntry(e.parts)}
        IN  /\ m = {} => found.data = None
            /\ exact # {} => \E e \in exact : found.data = e.data
            /\ (exact = {} /\ star # {}) => \E e \in star : found.data = e.data
            /\ (exact = {} /\ star = {} /\ m # {}) => \E e \in m : found.data = e.data

\* a literal domain: labels that are neither empty nor wildcards
IsLiteral(parts) ==
    parts # <<>> /\ \A i \in 1..Len(parts) : parts[i] \in DomainLabels
\* dom is p.d for a non-empty sequence of labels p
HasProperSuffix(dom, d) ==
    /\ Len(dom) > Len(d)
    /\ SubSeq(dom, Len(dom) - Len(d) + 1, Len(dom)) = d
\* the node the pattern was stored at still holds the data of that insert
NotOverwritten(pat, data) == [parts |-> pat, data |-> data] \in Entries
\* no other inserted pattern that matches the domain takes precedence
NonePrecedes(pat, dom) ==
    \A f \in Matching(dom) : f.parts # pat => ~Precedes(f.parts, pat)

\* C21, as amended: after insert(d, v) of a literal domain d, search(d) = v;
\* after insert(`+.d`, v), search(d) = v, and search(p.d) = v for every
\* non-empty sequence of labels p such that no other inserted pattern that
\* matches p.d takes precedence over `.d` (has an exact or `*` label where
\* `.d` has its empty label); all provided no later insert overwrote the same
\* node.
C21_InsertThenSearchUnlessPreceded ==
    (found # NoSearch /\ WellFormed(found.domain)) =>
        \A i \in 1..Len(inserted) :
            LET ins == inserted[i]
                d == Tail(ins.parts)
            IN  /\ (/\ IsLiteral(ins.parts)
                    /\ NotOverwritten(ins.parts, ins.data)
                    /\ found.domain = ins.parts) => found.data = ins.data
                /\ (/\ ins.parts[1] = "+" /\ IsLiteral(d)
                    /\ NotOverwritten(d, ins.data)
                    /\ found.domain = d) => found.data = ins.data
                /\ (/\ ins.parts[1] = "+" /\ IsLiteral(d)
                    /\ NotOverwritten(<<"">> \o d, ins.data)
                    /\ HasProperSuffix(found.domain, d)
                    /\ NonePrecedes(<<"">> \o d, found.domain)) =>
                        found.data = ins.data

\* C21 witness: the search of p.d returned the data of an insert of `+.d`
\* while another inserted pattern matches p.d as well.
C21_Witness ==
    /\ found # NoSearch /\ found.data # None
    /\ \E i \in 1..Len(inserted) :
          /\ inserted[i].parts[1] = "+" /\ IsLiteral(Tail(inserted[i].parts))
          /\ HasProperSuffix(found.domain, Tail(inserted[i].parts))
          /\ found.data = inserted[i].data
          /\ \E f \in Matching(found.domain) : f.data # found.data

\* C21: after insert(d, v) of a literal domain d, search(d) = v; after
\* insert(`+.d`, v), search(d) = v and search(p.d) = v for every non-empty
\* sequence of labels p, provided no later insert overwrote the same node.
C21_InsertThenSearch ==
    (found # NoSearch /\ WellFormed(found.domain)) =>
        \A i \in 1..Len(inserted) :
            LET ins == inserted[i]
                d == Tail(ins.parts)
            IN  /\ (/\ IsLiteral(ins.parts)
                    /\ NotOverwritten(ins.parts, ins.data)
                    /\ found.domain = ins.parts) => found.data = ins.data
                /\ (/\ ins.parts[1] = "+" /\ IsLiteral(d)
                    /\ NotOverwritten(d, ins.data)
                    /\ found.domain = d) => found.data = ins.data
                /\ (/\ ins.parts[1] = "+" /\ IsLiteral(d)
                    /\ NotOverwritten(<<"">> \o d, ins.data)
                    /\ HasProperSuffix(found.domain, d)) =>
                        found.data = ins.data

\* C22: a `*` label matches exactly one label: in a trie that holds `*.d`
\* alone, for a literal d, search(x.d) returns the value for every single
\* label x, and search(d) and search(y.x.d) return None.
C22_StarIsOneLabel ==
    (/\ found # NoSearch /\ WellFormed(found.domain)
     /\ Len(inserted) = 1
     /\ inserted[1].parts[1] = "*" /\ IsLiteral(Tail(inserted[1].parts))) =>
        LET d == Tail(inserted[1].parts)
            dom == found.domain
        IN  /\ (HasProperSuffix(dom, d) /\ Len(dom) = Len(d) + 1) =>
                    found.data = inserted[1].data
            /\ dom = d => found.data = None
            /\ (HasProperSuffix(dom, d) /\ Len(dom) >= Len(d) + 2) =>
                    found.data = None

\* C22 witness: with `*.d` alone in the trie, x.d was searched and the value
\* of `*.d` was found.
C22_Witness ==
    /\ Len(inserted) = 1
    /\ inserted[1].parts[1] = "*" /\ IsLiteral(Tail(inserted[1].parts))
    /\ HasProperSuffix(found.domain, Tail(inserted[1].parts))
    /\ Len(found.domain) = Len(inserted[1].parts)
    /\ found.data = inserted[1].data

\* the domain string is empty, ends with `.`, or has an empty label other than
\* the leftmost one
InvalidByLabels(parts) ==
    \/ parts = <<"">>
    \/ Len(parts) >= 2 /\ parts[Len(parts)] = ""
    \/ \E i \in 2..Len(parts) : parts[i] = ""

\* C23: insert fails with InvalidDomain exactly when the string is empty, ends
\* with `.`, or contains an empty label other than the leftmost one; a failed
\* insert leaves the trie as it was.
C23_InvalidDomain ==
    [][called' # NoInsert =>
          /\ called'.err <=> InvalidByLabels(called'.parts)
          /\ called'.err => (root' = root /\ inserted' = inserted)]_vars

\* C23 witness: an insert into a trie that holds an entry failed for an empty
\* label in the middle of the domain.
C23_Witness ==
    /\ called # NoInsert /\ called.err
    /\ Len(called.parts) = 3 /\ called.parts[2] = "" /\ called.parts[3] # ""
    /\ inserted # <<>>

(***************************************************************************)
(* Properties of the DNS front end                                         *)
(***************************************************************************)
\* the request passed the checks of the header and asks for recursion: the
\* handler chain is run for it
ReachesChain(req) ==
    /\ req # NoRequestYet
    /\ handle_request_error(req) = "NoError"
    /\ req.recursion_desired

ChainNotRun ==
    /\ ran' = <<>>
    /\ sent' = <<>>
    /\ UNCHANGED <<fakeVars, ip_store>>

\* C25: the front end rejects, in this order of precedence and without
\* running the handler chain (no fake IP is allocated, nothing is sent
\* upstream): a message of type Response with FormErr, a query whose opcode is
\* not Query with NotImp, a query whose EDNS version exceeds 0 with BADVERS.
C25_RejectsInOrder ==
    [][LET req == dns_request'
       IN  /\ req.message_type = "Response" =>
                 response'.code = "FormErr" /\ ChainNotRun
           /\ (req.message_type = "Query" /\ req.op_code # "Query") =>
                 response'.code = "NotImp" /\ ChainNotRun
           /\ (/\ req.message_type = "Query" /\ req.op_code = "Query"
               /\ req.edns > 0) =>
                 response'.code = "BADVERS" /\ ChainNotRun]_vars

\* C25 witness: a Response with opcode Update and EDNS version 1 was answered
\* with FormErr by a front end whose allocator holds a mapping.
C25_Witness ==
    /\ dns_request # NoRequestYet
    /\ dns_request.message_type = "Response"
    /\ dns_request.op_code = "Update" /\ dns_request.edns = 1
    /\ response.code = "FormErr"
    /\ handle_stack[1] = "FakeDnsHandle" /\ offset > 0

C37_SoundAndComplete ==
    found # NoSearch =>
        IF WellFormed(found.domain)
        THEN found.data # None <=> Matching(found.domain) # {}
        ELSE found.data = None

\* C37 witness: the search of `.a` returned None while the trie holds the
\* entry `.a` of an insert of `+.a`, whose node the reversed labels spell.
C37_Witness ==
    /\ found = [domain |-> <<"", "a">>, data |-> None]
    /\ \E e \in Entries : e.parts = <<"", "a">>
    /\ \E i \in 1..Len(inserted) : inserted[i].parts = <<"+", "a">>

\* C37 witness of a match: a domain of three labels was found through a
\* single entry, one with a leading empty label and a `*`.
C37_MatchWitness ==
    /\ found # NoSearch /\ found.data # None
    /\ Len(found.domain) = 3
    /\ \E e \in Matching(found.domain) :
          /\ Matching(found.domain) = {e}
          /\ e.parts = <<"", "*">>

(***************************************************************************)
(* Properties of the deadline of a Lookup                                  *)
(***************************************************************************)
\* C27: for every Lookup built from an upstream response, valid_until - now
\* is at least 0 and at most MAX_TTL for all 32-bit answer TTLs, and equals
\* the minimum answer TTL whenever that minimum is below MAX_TTL.
C27_DeadlineWithinMaxTtl ==
    ns_lookup.done =>
        LET d == ns_lookup.valid_until - ns_lookup.now
        IN  /\ 0 <= d /\ d <= MAX_TTL
            /\ (ns_lookup.ttls # <<>> /\ Min(ns_lookup.ttls) < MAX_TTL) =>
                   d = Min(ns_lookup.ttls)

(***************************************************************************)
(* Properties of the UDP associations                                      *)
(***************************************************************************)
\* the association of src that send_to finds in the map: one that has not
\* expired
AssocOf(src) ==
    {a \in {assoc_map[i] : i \in 1..Len(assoc_map)} : a.src = src /\ ~a.expired}
InMap(map, a) == \E i \in 1..Len(map) : map[i] = a

C32_AcceptedIsReceived ==
    \A id \in AssocIds :
        (id \in live /\ channels[id] # <<>>) ~> (received[id] # <<>>)

\* C33: the activity flag is set by every packet an association handles, so
\* that the next tick sends a keepalive with its source address: an
\* association that accepted a packet eventually has its flag set or a
\* keepalive sent to the manager.
C33_ActivityIsFlagged ==
    \A id \in AssocIds :
        (id \in live /\ channels[id] # <<>>)
            ~> (keepalive_flag[id] \/ keepalive_rx # <<>>)

\* the associations in the map, expired ones that no call has removed yet
\* among them
MapIds == {assoc_map[i].id : i \in 1..Len(assoc_map)}

\* C34: the running relay tasks are exactly the associations in the map, one
\* for each source: a task is spawned with the association at the first
\* packet of a source, and whenever an association leaves the map, by expiry,
\* by eviction, by the drop of the manager or because its first send failed,
\* its task is aborted.
C34_TasksAreAssociations ==
    /\ live = MapIds
    /\ \A i, j \in 1..Len(assoc_map) :
           assoc_map[i].src = assoc_map[j].src => i = j
    /\ manager_dropped => live = {}

\* C34 witness: associations were created for both sources, one has left the
\* map since, and the task of the other runs.
C34_Witness ==
    /\ created >= 2
    /\ Len(assoc_map) = 1
    /\ live = {assoc_map[1].id}

\* C34 witness of the drop of the manager: it had created associations, and
\* none of their tasks runs.
C34_DropWitness == manager_dropped /\ created >= 1 /\ live = {}

(***************************************************************************)
(* Properties of the bootstrap singleton                                   *)
(***************************************************************************)
\* the writes of the slot made by set_resolver on its own
ExplicitWrites == {i \in 1..Len(writes) : writes[i].by = "set_resolver"}

\* C29: first access is single-flight: when tasks call resolver() while the
\* slot is empty (and nobody calls set_resolver), the slot is written once,
\* the first writer wins, and every caller obtains that same resolver.
C29_SingleFlight ==
    ExplicitWrites = {} =>
        /\ Len(writes) <= 1
        /\ \A t \in Tasks : callers[t].pc = "done" => callers[t].got = writes[1].value
        /\ writes # <<>> => RESOLVER = writes[1].value

\* C30: lazy initialization never replaces an explicitly set resolver: once
\* set_resolver(r) has completed the slot holds r until the next explicit
\* set_resolver, also while a resolver() call that saw the empty slot before
\* is still in progress.
C30_ExplicitStays ==
    ExplicitWrites # {} =>
        \E i \in ExplicitWrites :
            /\ \A j \in ExplicitWrites : j <= i
            /\ RESOLVER = writes[i].value

(***************************************************************************)
(* Properties of the name server factory                                   *)
(***************************************************************************)
\* C31: create is double-checked: when two tasks miss on the same key, the
\* second insert is discarded, so the entry of a key never changes once
\* written and every caller holds the cached name server of its key; calls
\* with different keys (a different proxy) hold distinct name servers.
C31_DoubleChecked ==
    /\ \A i, j \in 1..Len(inserts) : i # j => inserts[i].key # inserts[j].key
    /\ \A t \in Tasks :
          creators[t].pc = "done" =>
              creators[t].got = CacheGet(cache, creators[t].key)
    /\ \A x, y \in cache : x.key # y.key => x.ns # y.ns

(***************************************************************************)
(* Properties of the protocol selection                                    *)
(***************************************************************************)
\* the kinds of the replies written to the client
WrittenKinds == {client.written[i].kind : i \in 1..Len(client.written)}

\* C39: the first byte of an accepted TCP stream alone selects the protocol:
\* 0x04 the SOCKS4 handler, 0x05 the SOCKS5 handler, and any other value, or
\* the end of the stream, closes the connection with an error and emits no
\* InboundConnection; the byte is peeked only, so that the handshake reads it
\* as its version.
C39_FirstByteSelects ==
    client.peeked.n >= 0 =>
        /\ (client.peeked.n > 0 /\ client.peeked.byte = 4) =>
               /\ client.version = 4
               /\ WrittenKinds \subseteq {"socks4"}
        /\ (client.peeked.n > 0 /\ client.peeked.byte = 5) =>
               /\ client.version = 5
               /\ "socks4" \notin WrittenKinds
        /\ (client.peeked.n = 0 \/ client.peeked.byte \notin {4, 5}) =>
               /\ client.pc = "done" /\ client.result = "err"
               /\ client.written = <<>>
               /\ tcp_in = <<>>
        /\ client.read_version # -1 =>
               /\ client.read_version = client.peeked.byte
               /\ client.read_version = client.version

\* C39 witness: the stream began with 0x04, the SOCKS4 handshake read that
\* byte as its version and the connection was emitted.
C39_Witness ==
    /\ client.peeked = [n |-> 1, byte |-> 4]
    /\ client.read_version = 4
    /\ client.pc = "done"
    /\ Len(tcp_in) = 1

\* C39 witness of a refusal: the stream began with another byte.
C39_RefusedWitness ==
    /\ client.peeked = [n |-> 1, byte |-> 1]
    /\ client.pc = "done" /\ client.result = "err"

(***************************************************************************)
(* Properties of the allocation scan                                       *)
(***************************************************************************)
\* C38: the allocation scan of lookup_ip terminates after probing at most
\* total offsets and 0 <= offset < total in every reachable state; with a
\* memory store whose size is below total the scan always ends at a slot
\* that is free in both families, so that the forced eviction is never
\* taken.
C38_ScanEndsAtFreeSlot ==
    /\ 0 <= offset /\ offset < total
    /\ Len(Probed(store, offset, offset)) <= total
    /\ (store.kind = "Memory" /\ store.size < total) =>
           /\ ~ScanFrom(store, offset, offset).forced
           /\ ~SlotTaken(store, ScanFrom(store, offset, offset).offset)
    /\ (last.op = "lookup_ip" /\ store.kind = "Memory" /\ store.size < total)
           => ~last.forced

(***************************************************************************)
(* Properties of the handler chain                                         *)
(***************************************************************************)
\* the places in the history of the event op of handler i
At(op, i) == {p \in 1..Len(events) : events[p] = [op |-> op, i |-> i]}
\* the search has returned to its caller
Searched == chain_query # NoQuery /\ frames = <<>>

\* C35: the handlers are invoked strictly in registration order, each at
\* most once for a request: the first starts first, handler i+1 starts only
\* when handler i calls next.run and returns before handler i returns; once a
\* handler has returned no later handler starts; and when every handler
\* delegates, the result is the error DnsRequestHandleNext::run makes:
\* NoRecordsFound with an SOA, response code ServFail, trusted.
C35_ChainInOrder ==
    /\ \A i \in 1..Len(handlers) : Cardinality(At("start", i)) <= 1
    /\ \A p \in 1..Len(events) :
          events[p].op = "start" =>
              IF events[p].i = 1 THEN p = 1
              ELSE p > 1 /\ events[p - 1] = [op |-> "run", i |-> events[p].i - 1]
    /\ \A p, q \in 1..Len(events) :
          (q < p /\ events[p].op = "return" /\ events[q].op = "start"
                 /\ events[q].i > events[p].i) =>
              \E r \in (q + 1)..(p - 1) :
                  events[r] = [op |-> "return", i |-> events[q].i]
    /\ \A p, q \in 1..Len(events) :
          (events[p].op = "return" /\ q > p) => events[q].op # "start"
    /\ Searched =>
          IF \A i \in 1..Len(handlers) : At("run", i) # {}
          THEN /\ chain_result.by = 0
               /\ chain_result.res = Err("ServFail", TRUE)
               /\ chain_result.trusted
          ELSE /\ chain_result.by \in 1..Len(handlers)
               /\ At("run", chain_result.by) = {}
               /\ At("start", chain_result.by + 1) = {}

\* C35 witness: a chain of two handlers that both delegated has returned the
\* error made at the end of the chain.
C35_Witness ==
    /\ Searched
    /\ Len(handlers) = 2
    /\ At("run", 1) # {} /\ At("run", 2) # {}
    /\ At("return", 1) # {} /\ At("return", 2) # {}
    /\ chain_result = Made(0, NoRecordsFound)

\* C36: the forward handler never delegates: when the local store of the
\* bootstrap resolver has an entry for the name and type of the query it
\* returns that entry without a lookup of the upstream client and sets
\* ctx.no_cache; otherwise it leaves ctx.no_cache as it is and issues exactly
\* one client lookup, with the record type of the query and no client subnet.
C36_ForwardNeverDelegates ==
    [][(frames # <<>> /\ Top.at = "handle"
            /\ handlers[Top.i] = "ForwardHandle") =>
          /\ events' = Append(events, [op |-> "return", i |-> Top.i])
          /\ chain_result'.by = Top.i
          /\ IF chain_query \in local_store
             THEN /\ lookups' = lookups
                  /\ no_cache'
                  /\ chain_result'.res.ok
                  /\ chain_result'.res.records[1].name = chain_query.name
             ELSE /\ no_cache' = no_cache
                  /\ lookups' = Append(lookups,
                                       [name |-> chain_query.name,
                                        record_type |-> chain_query.query_type,
                                        client_subnet |-> "None"])
                  /\ chain_result'.res \in UpstreamResults(chain_query)]_vars

\* C36 witness: the forward handler, reached through the fake-IP handler,
\* has answered from the local store: no lookup was sent and no_cache is set.
C36_Witness ==
    /\ Searched
    /\ chain_query \in local_store
    /\ chain_result.by = 2 /\ handlers[2] = "ForwardHandle"
    /\ no_cache /\ lookups = <<>>

\* C36 witness of the other branch: the forward handler has sent one lookup.
C36_ForwardedWitness ==
    /\ Searched
    /\ chain_query \notin local_store
    /\ chain_result.by = 1 /\ handlers[1] = "ForwardHandle"
    /\ ~no_cache /\ Len(lookups) = 1

====
